---- MODULE Spec2Model ----
(***************************************************************************)
(* Verification model of the disposable-email-domains service:             *)
(*   - the list index (domain.Checker: Load, PatchBlock, Check),           *)
(*   - the deny-list ingestion handler (handlers.API.Blocklist),           *)
(*   - the public-suffix snapshot refresher (pslrefresher.Refresher).      *)
(*                                                                         *)
(* Strings are sequences of tokens: a token is a maximal run of letters    *)
(* ("bad", "COM"), or one of the separator characters " ", "#", ".", "@"   *)
(* and the line feed "LF".  Lowercasing, trimming, splitting and the       *)
(* public-suffix computation work on these tokens as the Go code works on  *)
(* bytes.                                                                  *)
(***************************************************************************)
EXTENDS Integers, Sequences, FiniteSets, TLC

VARIABLES
    \* ---- files shared by Load and the ingestion writer
    allowFile,      \* bytes of allowlist.conf
    blockFile,      \* bytes of blocklist.conf
    \* ---- domain.Checker
    allow,          \* c.allow   : set of normalized entries
    block,          \* c.block
    rawAllow,       \* c.rawAllow: sequence of trimmed raw lines
    rawBlock,       \* c.rawBlock
    updatedAt,      \* c.updatedAt (0 is the zero time)
    ready,          \* the index's ready flag
    \* ---- handlers.API
    blMu,           \* a.blMu: the thread holding it, or NoThread
    th,             \* per request goroutine: program counter and locals
    \* ---- environment
    clock,          \* time.Now(), a logical clock
    ops,            \* number of requests started so far
    \* ---- pslrefresher.Refresher
    destFile,       \* bytes installed at r.DestPath (NoFile when absent)
    lastModified,   \* r.lastModified
    etag,           \* r.etag
    consecutiveFailures, \* r.consecutiveFailures
    lastSize,       \* r.lastSize
    lastSHA256,     \* r.lastSHA256
    rmu,            \* r.mu: the caller holding it, or NoProc
    rp,             \* per caller of tryRefresh: program counter and locals
    backoff,        \* loop's local backoff
    first,          \* loop's local first
    delay,          \* the period the loop's ticker was last Reset to
    gauge,          \* metrics.PSLConsecutiveFailures
    lastRefreshUnix, \* metrics.PSLLastRefreshUnix, relative to the present
    sizeWarnings,   \* metrics.PSLSizeDeltaWarningsTotal
    \* ---- observation of the scheduled loop (history, not program state)
    streak,         \* consecutive failed scheduled attempts so far
    prevLoop,       \* outcome of the previous scheduled attempt
    manualCalls,    \* RefreshNow calls made so far
    \* ---- Refresher.Stop
    stopCh,         \* r.stopCh is closed
    doneCh,         \* r.doneCh is closed
    sp,             \* position of the caller of Stop
    \* ---- handlers.API.Blocklist, remote lists
    fx,             \* the request that fetches remote lists: position and locals
    \* ---- middleware.AdminGuard and the batch check handlers
    adminTokens,    \* the tokens the guard was built with
    rq,             \* a request to POST /check/emails: position and locals
    \* ---- the locks of the handlers and of the index, seen from their users
    statusMu,       \* a.statusMu: its writer and its readers
    cmu,            \* the index lock c.mu: its writer and its readers
    lp,             \* per goroutine: the operation it runs and its position
    \* ---- router.RateLimiter
    rl              \* the clock, the bucket of one client, the sweeper

idxVars == <<allowFile, blockFile, allow, block, rawAllow, rawBlock,
             updatedAt, ready, blMu, th, clock, ops>>
refVars == <<destFile, lastModified, etag, consecutiveFailures,
             lastSize, lastSHA256, rmu, rp, backoff, first, delay, gauge,
             lastRefreshUnix, sizeWarnings, streak, prevLoop, manualCalls>>
stopVars == <<stopCh, doneCh, sp>>
urlVars == <<fx>>
apiVars == <<adminTokens, rq>>
srvVars == <<statusMu, cmu, lp, rl>>
vars == <<idxVars, refVars, stopVars, urlVars, apiVars, srvVars>>

----------------------------------------------------------------------------
(* Bounds of the model *)

MaxOps == 2
MaxManualCalls == 2
MaxConcStreak == 2
MaxStreak == 9
MaxWarnings == 2
MaxUrls == 2
MaxTime == 12

----------------------------------------------------------------------------
(* Strings *)

SP == " "
HASH == "#"
DOT == "."
AT == "@"
LF == "LF"
EmptyStr == << >>

\* strings.ToLower on one run of letters
ToLowerTok(t) ==
    CASE t = "BAD" -> "bad"
      [] t = "COM" -> "com"
      [] t = "Quux" -> "quux"
      [] t = "Org" -> "org"
      [] OTHER -> t

ToLower(s) == [i \in 1..Len(s) |-> ToLowerTok(s[i])]

IsSpaceTok(t) == t = SP \/ t = LF

RECURSIVE TrimLeft(_)
TrimLeft(s) ==
    IF s # EmptyStr /\ IsSpaceTok(Head(s)) THEN TrimLeft(Tail(s)) ELSE s

RECURSIVE TrimRight(_)
TrimRight(s) ==
    IF s # EmptyStr /\ IsSpaceTok(s[Len(s)])
    THEN TrimRight(SubSeq(s, 1, Len(s) - 1))
    ELSE s

TrimSpace(s) == TrimRight(TrimLeft(s))

HasPrefix(s, t) == Len(s) > 0 /\ s[1] = t

Contains(s, t) == \E i \in 1..Len(s) : s[i] = t

\* strings.Split(s, sep) for a one-character separator: always at least one part
RECURSIVE SplitAcc(_, _, _, _)
SplitAcc(s, sep, cur, acc) ==
    IF s = EmptyStr THEN Append(acc, cur)
    ELSE IF Head(s) = sep THEN SplitAcc(Tail(s), sep, EmptyStr, Append(acc, cur))
    ELSE SplitAcc(Tail(s), sep, Append(cur, Head(s)), acc)

Split(s, sep) == SplitAcc(s, sep, EmptyStr, << >>)

RECURSIVE Join(_, _)
Join(parts, sep) ==
    IF parts = << >> THEN EmptyStr
    ELSE IF Len(parts) = 1 THEN parts[1]
    ELSE parts[1] \o <<sep>> \o Join(Tail(parts), sep)

\* bufio.Scanner with ScanLines: the lines of data, without a final empty line
ScanLines(data) ==
    LET segs == Split(data, LF)
    IN  IF segs[Len(segs)] = EmptyStr THEN SubSeq(segs, 1, Len(segs) - 1) ELSE segs

\* the elements of a sequence
Range(s) == {s[i] : i \in 1..Len(s)}

----------------------------------------------------------------------------
(* The strings the requests and files are made of *)

sBadCom == <<"bad", DOT, "com">>
sGoodCom == <<"good", DOT, "com">>
sBazIo == <<"baz", DOT, "io">>
sQuuxOrg == <<"quux", DOT, "org">>
sQuuxOrgMixed == <<"Quux", DOT, "Org">>
sBadComUpper == <<"BAD", DOT, "COM">>
sSubBadCom == <<"x", DOT, "y", DOT, "bad", DOT, "com">>
sMailGoodCom == <<"mail", DOT, "good", DOT, "com">>
sLookalike == <<"bad", DOT, "com", DOT, "notbad", DOT, "org">>
sNeutralIo == <<"neutral", DOT, "io">>
sUserAtGood == <<"user", AT, "good", DOT, "com">>
sUserAtMailGood == <<"user", AT, "mail", DOT, "good", DOT, "com">>
sCoUk == <<"co", DOT, "uk">>
sShopCoUk == <<"www", DOT, "shop", DOT, "co", DOT, "uk">>
sTwoAts == <<"a", AT, "b", AT, "bad", DOT, "com">>
sPaddedBad == <<SP, "BAD", DOT, "COM", SP>>
sComment == <<HASH, "comment">>
sBlank == <<SP, SP, SP>>

\* file contents
fAllowGoodBad == sGoodCom \o <<LF>> \o sBadCom \o <<LF>>
fBlockHeaderNoNl == <<HASH, "deny", LF>> \o sBadComUpper

\* the list files as the service finds them: [allow, block]
ListFiles == {[allow |-> fAllowGoodBad, block |-> fBlockHeaderNoNl]}

\* the inputs of Check
Queries == {sBadCom, sGoodCom, sSubBadCom, sMailGoodCom, sLookalike,
            sNeutralIo, sUserAtGood, sUserAtMailGood, sBazIo, sQuuxOrg,
            sCoUk, sShopCoUk, sTwoAts, sPaddedBad, EmptyStr}

\* the inputs of the Check requests that run next to the other requests
RunQueries == {sSubBadCom, sUserAtGood, sBazIo, sPaddedBad}

\* the "entries" arrays of ingestion requests
Payloads == {<<sBazIo>>,
             <<sBazIo, sBadCom, sComment, sBlank, sQuuxOrgMixed>>,
             <<sQuuxOrgMixed, sQuuxOrg>>,
             <<sComment, sBlank>>}

----------------------------------------------------------------------------
(* golang.org/x/net/publicsuffix, on the rules the strings above need *)

\* a rule, written as its labels
Rule(toks) == [i \in 1..Len(toks) |-> <<toks[i]>>]

PSLRules == {Rule(<<"com">>), Rule(<<"org">>), Rule(<<"io">>), Rule(<<"uk">>),
             Rule(<<"co", "uk">>)}

\* the labels of a domain (an empty label is the empty string)
Labels(d) == Split(d, DOT)

LastLabels(ls, k) == SubSeq(ls, Len(ls) - k + 1, Len(ls))

\* number of labels of the longest matching rule; the default rule "*" gives 1
SuffixLen(ls) ==
    LET ks == {k \in 1..Len(ls) : LastLabels(ls, k) \in PSLRules}
    IN  IF ks = {} THEN 1 ELSE CHOOSE k \in ks : \A j \in ks : j <= k

PublicSuffix(d) ==
    IF d = EmptyStr THEN EmptyStr
    ELSE LET ls == Labels(d) IN Join(LastLabels(ls, SuffixLen(ls)), DOT)

\* the empty string stands for the error result: the caller drops the error
EffectiveTLDPlusOne(d) ==
    LET ls == Labels(d)
        k == SuffixLen(ls)
    IN  IF d = EmptyStr \/ (\E i \in 1..Len(ls) : ls[i] = EmptyStr) THEN EmptyStr
        ELSE IF Len(ls) <= k THEN EmptyStr
        ELSE Join(LastLabels(ls, k + 1), DOT)

----------------------------------------------------------------------------
(* domain.Checker: reading a list file *)

RECURSIVE ReadLines(_, _, _)
ReadLines(lines, set, raw) ==
    IF lines = << >> THEN [set |-> set, raw |-> raw]
    ELSE LET line == TrimSpace(Head(lines))
         IN  IF line = EmptyStr \/ HasPrefix(line, HASH)
             THEN ReadLines(Tail(lines), set, Append(raw, line))
             ELSE ReadLines(Tail(lines), set \cup {ToLower(line)}, Append(raw, line))

RECURSIVE ReadLinesKeepCase(_, _, _)
ReadLinesKeepCase(lines, set, raw) ==
    IF lines = << >> THEN [set |-> set, raw |-> raw]
    ELSE LET line == TrimSpace(Head(lines))
         IN  IF line = EmptyStr \/ HasPrefix(line, HASH)
             THEN ReadLinesKeepCase(Tail(lines), set, Append(raw, line))
             ELSE ReadLinesKeepCase(Tail(lines), set \cup {line}, Append(raw, line))

readListFileKeepCase(data) == ReadLinesKeepCase(ScanLines(data), {}, << >>)

readListFile(data) == ReadLines(ScanLines(data), {}, << >>)

----------------------------------------------------------------------------
(* domain.Checker.Check *)

\* net/mail: a dot-atom is a non-empty sequence of non-empty atoms joined by "."
IsDotAtom(p) ==
    LET ls == Split(p, DOT)
    IN  \A i \in 1..Len(ls) :
            /\ ls[i] # EmptyStr
            /\ \A j \in 1..Len(ls[i]) : ls[i][j] \notin {SP, LF, AT}

\* mail.ParseAddress(input): [ok, address]; surrounding blanks are skipped
ParseAddress(input) ==
    LET t == TrimSpace(input)
        parts == Split(t, AT)
    IN  IF Len(parts) = 2 /\ IsDotAtom(parts[1]) /\ IsDotAtom(parts[2])
        THEN [ok |-> TRUE, address |-> t]
        ELSE [ok |-> FALSE, address |-> EmptyStr]

ExtractDomainLastAt(input) ==
    IF Contains(input, AT)
    THEN LET addr == ParseAddress(input)
             all == Split(IF addr.ok THEN addr.address ELSE input, AT)
             parts == IF addr.ok THEN all
                      ELSE <<Join(SubSeq(all, 1, Len(all) - 1), AT), all[Len(all)]>>
             accept == IF addr.ok THEN Len(parts) = 2
                       ELSE parts[1] # EmptyStr /\ parts[2] # EmptyStr
         IN  IF accept
             THEN [type |-> "email", valid |-> TRUE, localPart |-> parts[1], dom |-> parts[2]]
             ELSE [type |-> "email", valid |-> FALSE, localPart |-> EmptyStr, dom |-> EmptyStr]
    ELSE [type |-> "domain", valid |-> TRUE, localPart |-> EmptyStr, dom |-> input]

\* lines 104-130: [type, valid, localPart, dom]
ExtractDomain(input) ==
    IF Contains(input, AT)
    THEN LET addr == ParseAddress(input)
             parts == IF addr.ok THEN Split(addr.address, AT) ELSE Split(input, AT)
             accept == IF addr.ok THEN Len(parts) = 2
                       ELSE Len(parts) = 2 /\ parts[1] # EmptyStr /\ parts[2] # EmptyStr
         IN  IF accept
             THEN [type |-> "email", valid |-> TRUE, localPart |-> parts[1], dom |-> parts[2]]
             ELSE [type |-> "email", valid |-> FALSE, localPart |-> EmptyStr, dom |-> EmptyStr]
    ELSE [type |-> "domain", valid |-> TRUE, localPart |-> EmptyStr, dom |-> input]

\* lines 143-146: the two map lookups made under the read lock
ListMatches(set, normalized, etld1) == normalized \in set

StatusOfBlockFirst(allowlisted, blocklisted) ==
    IF blocklisted THEN "block" ELSE IF allowlisted THEN "allow" ELSE "neutral"

\* lines 149-155
StatusOf(allowlisted, blocklisted) ==
    IF allowlisted THEN "allow" ELSE IF blocklisted THEN "block" ELSE "neutral"

\* lines 100-155: the result before its UpdatedAt is read
CheckLookup(input, allowSet, blockSet) ==
    LET x == ExtractDomain(input)
        dom == TrimSpace(x.dom)
        nd == ToLower(dom)
        ps == PublicSuffix(nd)
        etld1 == EffectiveTLDPlusOne(nd)
        a == ListMatches(allowSet, nd, etld1)
        b == ListMatches(blockSet, nd, etld1)
    IN  [Input |-> input, Type |-> x.type, ValidFormat |-> x.valid,
         LocalPart |-> x.localPart, Domain |-> dom, NormalizedDomain |-> nd,
         PublicSuffix |-> ps, RegistrableDomain |-> etld1,
         IsPublicSuffixOnly |-> (ps # EmptyStr /\ ps = nd),
         IsSubdomain |-> (etld1 # EmptyStr /\ nd # etld1),
         Allowlisted |-> a, Blocklisted |-> b, Status |-> StatusOf(a, b),
         UpdatedAt |-> 0]

----------------------------------------------------------------------------
(* domain.Checker.PatchBlock: the incremental patch of the deny list *)

RECURSIVE PatchInto(_, _, _)
PatchInto(entries, set, raw) ==
    IF entries = << >> THEN [set |-> set, raw |-> raw]
    ELSE LET e == ToLower(TrimSpace(Head(entries)))
         IN  IF e = EmptyStr \/ HasPrefix(e, HASH) \/ e \in set
             THEN PatchInto(Tail(entries), set, raw)
             ELSE PatchInto(Tail(entries), set \cup {e}, Append(raw, e))

RECURSIVE PatchIntoNoSkip(_, _, _)
PatchIntoNoSkip(entries, set, raw) ==
    IF entries = << >> THEN [set |-> set, raw |-> raw]
    ELSE LET e == ToLower(TrimSpace(Head(entries)))
         IN  IF e = EmptyStr \/ HasPrefix(e, HASH)
             THEN PatchIntoNoSkip(Tail(entries), set, raw)
             ELSE PatchIntoNoSkip(Tail(entries), set \cup {e}, Append(raw, e))

PatchResultNoSkip(entries, set, raw) == PatchIntoNoSkip(entries, set, raw)

PatchResultRebuild(entries, set, raw) == PatchInto(entries, {}, << >>)

\* the deny set and raw sequence after PatchBlock(entries)
PatchResult(entries, set, raw) == PatchInto(entries, set, raw)

PatchStampAlways(inserted, old, now) == now

\* lastUpdated after a Patch: it advances only if an entry was inserted
PatchStamp(inserted, old, now) == IF inserted THEN now ELSE old

ReadyAfterLast(was, ok) == ok

\* the ready flag after a Load (ok: it succeeded) or a Patch (ok is TRUE)
ReadyAfter(was, ok) == was \/ ok

----------------------------------------------------------------------------
(* domain.Checker.Validate: the report *)

\* the runs of characters in byte order: space, "#", "-", ".", "@", upper case,
\* lower case
TokOrder ==
    <<SP, HASH, "-bad", DOT, AT, "BAD", "COM", "Org", "Quux", "bad", "baz", "co",
      "com", "comment", "deep", "deny", "example", "good", "io", "mail",
      "neutral", "notbad", "org", "quux", "shop", "sub", "uk", "www", "x", "y">>

Rank(t) == CHOOSE i \in 1..Len(TokOrder) : TokOrder[i] = t

\* a < b for Go strings
RECURSIVE StrLess(_, _)
StrLess(a, b) ==
    IF b = EmptyStr THEN FALSE
    ELSE IF a = EmptyStr THEN TRUE
    ELSE IF Head(a) = Head(b) THEN StrLess(Tail(a), Tail(b))
    ELSE Rank(Head(a)) < Rank(Head(b))

RECURSIVE InsertSorted(_, _)
InsertSorted(l, sorted) ==
    IF sorted = << >> THEN <<l>>
    ELSE IF StrLess(l, Head(sorted)) THEN <<l>> \o sorted
    ELSE <<Head(sorted)>> \o InsertSorted(l, Tail(sorted))

\* sort.Strings
RECURSIVE SortStrings(_)
SortStrings(lines) ==
    IF lines = << >> THEN << >>
    ELSE InsertSorted(Head(lines), SortStrings(Tail(lines)))

\* lines 186-195: the hint [first, second] says "first should come before
\* second"; << >> is the empty hint of a sorted list
isSorted(lines) ==
    LET sorted == SortStrings(lines)
        off == {i \in 1..Len(lines) : lines[i] # sorted[i]}
    IN  IF off = {} THEN << >>
        ELSE LET i == CHOOSE k \in off : \A j \in off : k <= j
             IN  <<sorted[i], lines[i]>>

\* lines 202 and 216: a line that is neither empty nor a comment
IsEntryLine(l) == ~(l = EmptyStr \/ HasPrefix(l, HASH))

IsLowerViol(l) == IsEntryLine(l) /\ l # ToLower(l)

\* lines 198-211
lowerViol(lines) == SelectSeq(lines, IsLowerViol)

dupesNormalized(lines) ==
    {ToLower(lines[i]) : i \in {k \in 1..Len(lines) :
        /\ IsEntryLine(lines[k])
        /\ \E j \in 1..Len(lines) :
               j # k /\ IsEntryLine(lines[j]) /\ ToLower(lines[j]) = ToLower(lines[k])}}

\* lines 212-229: the raw lines counted more than once (sorted, so as a set)
dupes(lines) ==
    {lines[i] : i \in {k \in 1..Len(lines) :
        /\ IsEntryLine(lines[k])
        /\ Cardinality({j \in 1..Len(lines) : lines[j] = lines[k]}) > 1}}

IsPublicSuffixLine(l) ==
    LET line == TrimSpace(l)
    IN  IsEntryLine(line) /\ PublicSuffix(ToLower(line)) = ToLower(line)

IsThirdLevelLine(l) ==
    LET line == TrimSpace(l)
        d == ToLower(line)
    IN  /\ IsEntryLine(line)
        /\ EffectiveTLDPlusOne(d) # EmptyStr
        /\ EffectiveTLDPlusOne(d) # d

NoReport == [ErrorsFound |-> FALSE]

\* line 280
ErrorsFoundOf(r) ==
    \/ r.PublicSuffixInBlock # << >> \/ r.ThirdLevelInBlock # << >>
    \/ r.NonLowercaseAllow # << >> \/ r.NonLowercaseBlock # << >>
    \/ r.DuplicatesAllow # {} \/ r.DuplicatesBlock # {}
    \/ r.Intersection # {}

\* lines 231-283: the report, from the copies rawA and rawB taken at lines
\* 179-182 and from the sets as they are at lines 250-260
Report(rawA, rawB, allowSet, blockSet) ==
    LET r == [PublicSuffixInBlock |-> SelectSeq(rawB, IsPublicSuffixLine),
              ThirdLevelInBlock |-> SelectSeq(rawB, IsThirdLevelLine),
              NonLowercaseAllow |-> lowerViol(rawA),
              NonLowercaseBlock |-> lowerViol(rawB),
              DuplicatesAllow |-> dupes(rawA),
              DuplicatesBlock |-> dupes(rawB),
              UnsortedAllowHint |-> isSorted(rawA),
              UnsortedBlockHint |-> isSorted(rawB),
              Intersection |-> allowSet \cap blockSet]
    IN  [ErrorsFound |-> ErrorsFoundOf(r)] @@ r

----------------------------------------------------------------------------
(* handlers.API.Blocklist (POST): the pure parts *)

\* lines 72-79: the candidates of the "entries" array
RECURSIVE CollectCandidates(_)
CollectCandidates(entries) ==
    IF entries = << >> THEN << >>
    ELSE LET e == ToLower(TrimSpace(Head(entries)))
         IN  IF e = EmptyStr \/ HasPrefix(e, HASH)
             THEN CollectCandidates(Tail(entries))
             ELSE <<e>> \o CollectCandidates(Tail(entries))

\* buildExistingSet: the normalized entries of the file and its number of lines
RECURSIVE ExistingOf(_, _)
ExistingOf(lines, set) ==
    IF lines = << >> THEN set
    ELSE LET line == TrimSpace(Head(lines))
         IN  IF line = EmptyStr \/ HasPrefix(line, HASH)
             THEN ExistingOf(Tail(lines), set)
             ELSE ExistingOf(Tail(lines), set \cup {ToLower(line)})

buildExistingSet(data) ==
    [set |-> ExistingOf(ScanLines(data), {}), lineNo |-> Len(ScanLines(data))]

RECURSIVE FilterUniqueNoMark(_, _)
FilterUniqueNoMark(cands, existing) ==
    IF cands = << >> THEN << >>
    ELSE IF Head(cands) \in existing THEN FilterUniqueNoMark(Tail(cands), existing)
    ELSE <<Head(cands)>> \o FilterUniqueNoMark(Tail(cands), existing)

\* lines 246-254: the candidates that are not in the existing set, each once
RECURSIVE FilterUnique(_, _)
FilterUnique(cands, existing) ==
    IF cands = << >> THEN << >>
    ELSE IF Head(cands) \in existing THEN FilterUnique(Tail(cands), existing)
    ELSE <<Head(cands)>> \o FilterUnique(Tail(cands), existing \cup {Head(cands)})

\* lines 260-269: the new file content
RECURSIVE LinesOf(_)
LinesOf(unique) ==
    IF unique = << >> THEN EmptyStr
    ELSE Head(unique) \o <<LF>> \o LinesOf(Tail(unique))

AppendBuffer(orig, unique) ==
    orig \o (IF Len(orig) > 0 /\ orig[Len(orig)] # LF THEN <<LF>> ELSE EmptyStr)
         \o LinesOf(unique)

\* lines 310-314
AddedIds(totalLines, unique) ==
    [i \in 1..Len(unique) |-> [id |-> totalLines + i, domain |-> unique[i]]]

----------------------------------------------------------------------------
(* Request goroutines *)

\* two request goroutines run side by side
Threads == {1, 2}
NoThread == 0
NoList == [set |-> {}, raw |-> << >>]
NoRes == [Status |-> "none"]

IdleThread ==
    [pc |-> "idle", op |-> "none", res |-> NoRes, cands |-> << >>,
     unique |-> << >>, totalLines |-> 0, buf |-> EmptyStr, reload |-> FALSE,
     reloaded |-> FALSE, ldAllow |-> NoList, ldBlock |-> NoList, code |-> 0,
     added |-> << >>, strict |-> FALSE, rawA |-> << >>, rawB |-> << >>,
     rep |-> NoReport, appended |-> 0, skipped |-> 0]

Set(t, r) == th' = [th EXCEPT ![t] = r]

\* a.blMu.Lock() returns only when nobody holds the mutex
BlMuFree == blMu = NoThread

\* a goroutine takes a request when it is new or has answered its previous one
CanStart(t) == th[t].pc \in {"idle", "done"} /\ ops < MaxOps

\* ---- Check: lines 100-155, then lines 157-160
CheckBegin(t) ==
    /\ CanStart(t)
    /\ \E q \in RunQueries :
          Set(t, [IdleThread EXCEPT !.pc = "checkStamp", !.op = "check",
                                     !.res = CheckLookup(q, allow, block)])
    /\ ops' = ops + 1
    /\ UNCHANGED <<allowFile, blockFile, allow, block, rawAllow, rawBlock,
                   updatedAt, ready, blMu, clock>>
    /\ UNCHANGED <<refVars, stopVars, urlVars, apiVars, srvVars>>

CheckEnd(t) ==
    /\ th[t].pc = "checkStamp"
    /\ Set(t, [th[t] EXCEPT !.pc = "done", !.code = 200,
                            !.res = [th[t].res EXCEPT !.UpdatedAt = updatedAt]])
    /\ UNCHANGED <<allowFile, blockFile, allow, block, rawAllow, rawBlock,
                   updatedAt, ready, blMu, clock, ops>>
    /\ UNCHANGED <<refVars, stopVars, urlVars, apiVars, srvVars>>

\* ---- Load, called by ReloadHandler (Reload) and by Blocklist with reload=true
\* where a thread goes when its Load has returned
AfterLoadNoValidate(r, ok) ==
    IF r.op = "reload"
    THEN [r EXCEPT !.pc = "done", !.code = IF ok THEN 200 ELSE 400,
                   !.ldAllow = NoList, !.ldBlock = NoList]
    ELSE [r EXCEPT !.pc = "ingRespond", !.reloaded = ok,
                   !.ldAllow = NoList, !.ldBlock = NoList]

AfterLoad(r, ok) ==
    IF r.op = "reload" /\ r.strict /\ ok
    THEN [r EXCEPT !.pc = "valSnap", !.ldAllow = NoList, !.ldBlock = NoList]
    ELSE IF r.op = "reload"
    THEN [r EXCEPT !.pc = "done", !.code = IF ok THEN 200 ELSE 400,
                   !.ldAllow = NoList, !.ldBlock = NoList]
    ELSE [r EXCEPT !.pc = "ingRespond", !.reloaded = ok,
                   !.ldAllow = NoList, !.ldBlock = NoList]

ReloadBegin(t) ==
    /\ CanStart(t)
    /\ Set(t, [IdleThread EXCEPT !.pc = "loadAllow", !.op = "reload"])
    /\ ops' = ops + 1
    /\ UNCHANGED <<allowFile, blockFile, allow, block, rawAllow, rawBlock,
                   updatedAt, ready, blMu, clock>>
    /\ UNCHANGED <<refVars, stopVars, urlVars, apiVars, srvVars>>

LoadReadAllowInPlace(t) ==
    /\ th[t].pc = "loadAllow"
    /\ \E ok \in BOOLEAN :
          IF ok
          THEN /\ Set(t, [th[t] EXCEPT !.pc = "loadBlock",
                                         !.ldAllow = readListFile(allowFile)])
               /\ allow' = readListFile(allowFile).set
               /\ rawAllow' = readListFile(allowFile).raw
               /\ ready' = ready
          ELSE /\ Set(t, AfterLoad(th[t], FALSE))
               /\ ready' = ReadyAfter(ready, FALSE)
               /\ UNCHANGED <<allow, rawAllow>>
    /\ UNCHANGED <<allowFile, blockFile, block, rawBlock,
                   updatedAt, blMu, clock, ops>>
    /\ UNCHANGED <<refVars, stopVars, urlVars, apiVars, srvVars>>

\* lines 38-41
LoadReadAllow(t) ==
    /\ th[t].pc = "loadAllow"
    /\ \E ok \in BOOLEAN :
          IF ok
          THEN /\ Set(t, [th[t] EXCEPT !.pc = "loadBlock",
                                         !.ldAllow = readListFile(allowFile)])
               /\ ready' = ready
          ELSE /\ Set(t, AfterLoad(th[t], FALSE))
               /\ ready' = ReadyAfter(ready, FALSE)
    /\ UNCHANGED <<allowFile, blockFile, allow, block, rawAllow, rawBlock,
                   updatedAt, blMu, clock, ops>>
    /\ UNCHANGED <<refVars, stopVars, urlVars, apiVars, srvVars>>

\* lines 42-45
LoadReadBlock(t) ==
    /\ th[t].pc = "loadBlock"
    /\ \E ok \in BOOLEAN :
          IF ok
          THEN /\ Set(t, [th[t] EXCEPT !.pc = "loadSwap",
                                         !.ldBlock = readListFile(blockFile)])
               /\ ready' = ready
          ELSE /\ Set(t, AfterLoad(th[t], FALSE))
               /\ ready' = ReadyAfter(ready, FALSE)
    /\ UNCHANGED <<allowFile, blockFile, allow, block, rawAllow, rawBlock,
                   updatedAt, blMu, clock, ops>>
    /\ UNCHANGED <<refVars, stopVars, urlVars, apiVars, srvVars>>

\* lines 46-53
LoadSwap(t) ==
    /\ th[t].pc = "loadSwap"
    /\ allow' = th[t].ldAllow.set
    /\ block' = th[t].ldBlock.set
    /\ rawAllow' = th[t].ldAllow.raw
    /\ rawBlock' = th[t].ldBlock.raw
    /\ updatedAt' = clock
    /\ clock' = clock + 1
    /\ ready' = ReadyAfter(ready, TRUE)
    /\ Set(t, AfterLoad(th[t], TRUE))
    /\ UNCHANGED <<allowFile, blockFile, blMu, ops>>
    /\ UNCHANGED <<refVars, stopVars, urlVars, apiVars, srvVars>>

\* ---- Validate, called by the report handler and by Reload(strict=true)
\* part_003 lines 353-354: POST /reload?strict=true
ReloadStrictBegin(t) ==
    /\ CanStart(t)
    /\ Set(t, [IdleThread EXCEPT !.pc = "loadAllow", !.op = "reload",
                                 !.strict = TRUE])
    /\ ops' = ops + 1
    /\ UNCHANGED <<allowFile, blockFile, allow, block, rawAllow, rawBlock,
                   updatedAt, ready, blMu, clock>>
    /\ UNCHANGED <<refVars, stopVars, urlVars, apiVars, srvVars>>

ValidateBegin(t) ==
    /\ CanStart(t)
    /\ Set(t, [IdleThread EXCEPT !.pc = "valSnap", !.op = "validate"])
    /\ ops' = ops + 1
    /\ UNCHANGED <<allowFile, blockFile, allow, block, rawAllow, rawBlock,
                   updatedAt, ready, blMu, clock>>
    /\ UNCHANGED <<refVars, stopVars, urlVars, apiVars, srvVars>>

\* lines 179-182: the raw sequences are copied under the read lock
ValidateSnap(t) ==
    /\ th[t].pc = "valSnap"
    /\ Set(t, [th[t] EXCEPT !.pc = "valInter", !.rawA = rawAllow,
                            !.rawB = rawBlock])
    /\ UNCHANGED <<allowFile, blockFile, allow, block, rawAllow, rawBlock,
                   updatedAt, ready, blMu, clock, ops>>
    /\ UNCHANGED <<refVars, stopVars, urlVars, apiVars, srvVars>>

\* lines 249-283: the sets are read under a second read lock and the report is
\* made; lines 294-298: Reload(true) fails if the report has errors
ValidateInter(t) ==
    /\ th[t].pc = "valInter"
    /\ LET r == Report(th[t].rawA, th[t].rawB, allow, block)
       IN  Set(t, [th[t] EXCEPT
                      !.pc = "done", !.rep = r, !.rawA = << >>, !.rawB = << >>,
                      !.code = IF th[t].op = "reload" /\ r.ErrorsFound
                               THEN 400 ELSE 200])
    /\ UNCHANGED <<allowFile, blockFile, allow, block, rawAllow, rawBlock,
                   updatedAt, ready, blMu, clock, ops>>
    /\ UNCHANGED <<refVars, stopVars, urlVars, apiVars, srvVars>>

\* ---- Blocklist (POST)
\* lines 54-96 and 229-232: decode the body and collect the candidates
IngestBegin(t) ==
    /\ CanStart(t)
    /\ \E entries \in Payloads, reload \in BOOLEAN :
          LET cands == CollectCandidates(entries)
          IN  IF entries = << >> \/ cands = << >>
              THEN Set(t, [IdleThread EXCEPT !.pc = "done", !.op = "ingest",
                                             !.code = 400])
              ELSE Set(t, [IdleThread EXCEPT !.pc = "ingDedup", !.op = "ingest",
                                             !.cands = cands, !.reload = reload])
    /\ ops' = ops + 1
    /\ UNCHANGED <<allowFile, blockFile, allow, block, rawAllow, rawBlock,
                   updatedAt, ready, blMu, clock>>
    /\ UNCHANGED <<refVars, stopVars, urlVars, apiVars, srvVars>>

\* lines 237-257: the existing set is built from the file, before a.blMu is taken
IngestDedup(t) ==
    /\ th[t].pc = "ingDedup"
    /\ \E ok \in BOOLEAN :
          IF ~ok
          THEN Set(t, [th[t] EXCEPT !.pc = "done", !.code = 500])
          ELSE LET ex == buildExistingSet(blockFile)
                   unique == FilterUnique(th[t].cands, ex.set)
               IN  Set(t, [th[t] EXCEPT
                              !.unique = unique, !.totalLines = ex.lineNo,
                              !.pc = IF unique # << >> THEN "ingLock"
                                     ELSE IF th[t].reload THEN "loadAllow"
                                     ELSE "ingRespond"])
    /\ UNCHANGED <<allowFile, blockFile, allow, block, rawAllow, rawBlock,
                   updatedAt, ready, blMu, clock, ops>>
    /\ UNCHANGED <<refVars, stopVars, urlVars, apiVars, srvVars>>

\* line 258
IngestLock(t) ==
    /\ th[t].pc = "ingLock"
    /\ BlMuFree
    /\ blMu' = t
    /\ Set(t, [th[t] EXCEPT !.pc = "ingWriteTmp"])
    /\ UNCHANGED <<allowFile, blockFile, allow, block, rawAllow, rawBlock,
                   updatedAt, ready, clock, ops>>
    /\ UNCHANGED <<refVars, stopVars, urlVars, apiVars, srvVars>>

\* lines 259-275: read the file (its error is dropped), write the temporary file
IngestWriteTmp(t) ==
    /\ th[t].pc = "ingWriteTmp"
    /\ \E readOk \in BOOLEAN, writeOk \in BOOLEAN :
          LET orig == IF readOk THEN blockFile ELSE EmptyStr
          IN  IF writeOk
              THEN /\ Set(t, [th[t] EXCEPT !.pc = "ingRename",
                                           !.buf = AppendBuffer(orig, th[t].unique)])
                   /\ blMu' = blMu
              ELSE /\ Set(t, [th[t] EXCEPT !.pc = "done", !.code = 500])
                   /\ blMu' = NoThread
    /\ UNCHANGED <<allowFile, blockFile, allow, block, rawAllow, rawBlock,
                   updatedAt, ready, clock, ops>>
    /\ UNCHANGED <<refVars, stopVars, urlVars, apiVars, srvVars>>

IngestRenameInPlace(t) ==
    /\ th[t].pc = "ingRename"
    /\ \E ok \in BOOLEAN :
          /\ blockFile' = th[t].buf
          /\ IF ok
             THEN /\ Set(t, [th[t] EXCEPT !.pc = "ingPatch", !.buf = EmptyStr])
                  /\ blMu' = blMu
             ELSE /\ Set(t, [th[t] EXCEPT !.pc = "done", !.code = 500,
                                          !.buf = EmptyStr])
                  /\ blMu' = NoThread
    /\ UNCHANGED <<allowFile, allow, block, rawAllow, rawBlock,
                   updatedAt, ready, clock, ops>>
    /\ UNCHANGED <<refVars, stopVars, urlVars, apiVars, srvVars>>

\* lines 276-280
IngestRename(t) ==
    /\ th[t].pc = "ingRename"
    /\ \E ok \in BOOLEAN :
          IF ok
          THEN /\ blockFile' = th[t].buf
               /\ Set(t, [th[t] EXCEPT !.pc = "ingPatch", !.buf = EmptyStr])
               /\ blMu' = blMu
          ELSE /\ blockFile' = blockFile
               /\ Set(t, [th[t] EXCEPT !.pc = "done", !.code = 500, !.buf = EmptyStr])
               /\ blMu' = NoThread
    /\ UNCHANGED <<allowFile, allow, block, rawAllow, rawBlock,
                   updatedAt, ready, clock, ops>>
    /\ UNCHANGED <<refVars, stopVars, urlVars, apiVars, srvVars>>

\* lines 281-291: PatchBlock(unique) under the index's write lock
IngestPatch(t) ==
    /\ th[t].pc = "ingPatch"
    /\ LET p == PatchResult(th[t].unique, block, rawBlock)
       IN  /\ block' = p.set
           /\ rawBlock' = p.raw
           /\ updatedAt' = PatchStamp(p.set # block, updatedAt, clock)
           /\ clock' = IF updatedAt' = clock THEN clock + 1 ELSE clock
    /\ ready' = ReadyAfter(ready, TRUE)
    /\ Set(t, [th[t] EXCEPT !.pc = "ingUnlock"])
    /\ UNCHANGED <<allowFile, blockFile, allow, rawAllow, blMu, ops>>
    /\ UNCHANGED <<refVars, stopVars, urlVars, apiVars, srvVars>>

\* lines 292-299
IngestUnlock(t) ==
    /\ th[t].pc = "ingUnlock"
    /\ blMu' = NoThread
    /\ Set(t, [th[t] EXCEPT !.pc = IF th[t].reload THEN "loadAllow" ELSE "ingRespond"])
    /\ UNCHANGED <<allowFile, blockFile, allow, block, rawAllow, rawBlock,
                   updatedAt, ready, clock, ops>>
    /\ UNCHANGED <<refVars, stopVars, urlVars, apiVars, srvVars>>

\* lines 310-338
IngestRespond(t) ==
    /\ th[t].pc = "ingRespond"
    /\ Set(t, [th[t] EXCEPT !.pc = "done", !.code = 200,
                            !.added = AddedIds(th[t].totalLines, th[t].unique),
                            !.appended = Len(th[t].unique),
                            !.skipped = Len(th[t].cands) - Len(th[t].unique)])
    /\ UNCHANGED <<allowFile, blockFile, allow, block, rawAllow, rawBlock,
                   updatedAt, ready, blMu, clock, ops>>
    /\ UNCHANGED <<refVars, stopVars, urlVars, apiVars, srvVars>>

----------------------------------------------------------------------------
(* net.IP and isDisallowedIP *)

\* a net.IP is its bytes: 4 for IPv4, 16 for IPv6
V4(a, b, c, d) == <<a, b, c, d>>
V6(b0, b1, last) == <<b0, b1, 0, 0, 0, 0, 0, 0, 0, 0, 0, 0, 0, 0, 0, last>>
Mapped(a, b, c, d) == <<0, 0, 0, 0, 0, 0, 0, 0, 0, 0, 255, 255, a, b, c, d>>

IPs ==
    {V4(127, 0, 0, 1), V4(10, 0, 0, 5), V4(169, 254, 0, 1), V4(8, 8, 8, 8),
     V6(252, 0, 1),
     V4(10, 0, 5, 7), V4(9, 255, 255, 255), V4(11, 0, 0, 0),
     V4(172, 15, 255, 255), V4(172, 16, 0, 1), V4(172, 31, 255, 255),
     V4(172, 32, 0, 0), V4(192, 168, 1, 10), V4(192, 167, 255, 255),
     V4(192, 169, 0, 0), V4(169, 253, 0, 1), V4(1, 1, 1, 1), V4(0, 0, 0, 0),
     V4(126, 255, 255, 255), V4(128, 0, 0, 1), V4(223, 255, 255, 255),
     V4(224, 0, 0, 1), V4(239, 255, 255, 255), V4(240, 0, 0, 1),
     V6(0, 0, 1), V6(0, 0, 0), V6(253, 18, 1), V6(251, 255, 1), V6(254, 0, 1),
     V6(254, 128, 1), V6(254, 191, 1), V6(254, 192, 1), V6(255, 2, 1),
     V6(255, 14, 1), V6(32, 1, 136),
     Mapped(10, 0, 0, 5), Mapped(8, 8, 8, 8), Mapped(127, 0, 0, 1)}

\* ip.To4(): the four bytes of an IPv4 or IPv4-mapped address, else nil (<< >>)
To4(ip) ==
    IF Len(ip) = 4 THEN ip
    ELSE IF /\ Len(ip) = 16
            /\ \A i \in 1..10 : ip[i] = 0
            /\ ip[11] = 255 /\ ip[12] = 255
         THEN SubSeq(ip, 13, 16)
    ELSE << >>

IsLoopback(ip) ==
    IF To4(ip) # << >> THEN To4(ip)[1] = 127
    ELSE ip = V6(0, 0, 1)

IsUnspecified(ip) == To4(ip) = V4(0, 0, 0, 0) \/ ip = V6(0, 0, 0)

IsMulticast(ip) ==
    IF To4(ip) # << >> THEN To4(ip)[1] \div 16 = 14
    ELSE Len(ip) = 16 /\ ip[1] = 255

IsLinkLocalUnicast(ip) ==
    IF To4(ip) # << >> THEN To4(ip)[1] = 169 /\ To4(ip)[2] = 254
    ELSE Len(ip) = 16 /\ ip[1] = 254 /\ ip[2] \div 64 = 2

IsLinkLocalMulticast(ip) ==
    IF To4(ip) # << >>
    THEN To4(ip)[1] = 224 /\ To4(ip)[2] = 0 /\ To4(ip)[3] = 0
    ELSE Len(ip) = 16 /\ ip[1] = 255 /\ ip[2] % 16 = 2

isDisallowedIPShort172(ip) ==
    IF \/ IsLoopback(ip) \/ IsUnspecified(ip) \/ IsMulticast(ip)
       \/ IsLinkLocalUnicast(ip) \/ IsLinkLocalMulticast(ip)
    THEN TRUE
    ELSE IF To4(ip) # << >>
    THEN LET v4 == To4(ip)
         IN  \/ v4[1] = 10
             \/ v4[1] = 172 /\ v4[2] >= 16 /\ v4[2] < 31
             \/ v4[1] = 192 /\ v4[2] = 168
             \/ v4[1] = 169 /\ v4[2] = 254
    ELSE Len(ip) = 16 /\ (ip[1] \div 2) * 2 = 252

\* lines 433-459
isDisallowedIP(ip) ==
    IF \/ IsLoopback(ip) \/ IsUnspecified(ip) \/ IsMulticast(ip)
       \/ IsLinkLocalUnicast(ip) \/ IsLinkLocalMulticast(ip)
    THEN TRUE
    ELSE IF To4(ip) # << >>
    THEN LET v4 == To4(ip)
         IN  \/ v4[1] = 10
             \/ v4[1] = 172 /\ v4[2] >= 16 /\ v4[2] <= 31
             \/ v4[1] = 192 /\ v4[2] = 168
             \/ v4[1] = 169 /\ v4[2] = 254
    ELSE Len(ip) = 16 /\ (ip[1] \div 2) * 2 = 252

----------------------------------------------------------------------------
(* pslrefresher: constants (durations in seconds, sizes in bytes) *)

FirstDelay == 5
BackoffFloor == 300
BackoffCeil == 21600
Interval == 86400
BodyLimit == 3145728
MinSize == 200000
MaxSize == 2000000
MinLines == 5000

(* A fetched body, by what validate looks at: its size, whether "<html"
   occurs in its first 1024 bytes, whether it holds the two ICANN markers and
   its number of lines; id tells different contents apart. *)
pGood1 == [id |-> 1, size |-> 240000, html |-> FALSE, begin |-> TRUE, end |-> TRUE, lines |-> 6000]
pGood2 == [id |-> 2, size |-> 300000, html |-> FALSE, begin |-> TRUE, end |-> TRUE, lines |-> 7000]
pNoEnd == [id |-> 3, size |-> 250000, html |-> FALSE, begin |-> TRUE, end |-> FALSE, lines |-> 6000]
pSmall == [id |-> 4, size |-> 150, html |-> FALSE, begin |-> TRUE, end |-> TRUE, lines |-> 2]
pHuge == [id |-> 5, size |-> 4000000, html |-> FALSE, begin |-> TRUE, end |-> TRUE, lines |-> 90000]
NoData == [id |-> 0, size |-> 0, html |-> FALSE, begin |-> FALSE, end |-> FALSE, lines |-> 0]

Bodies == {pGood1, pGood2, pNoEnd, pSmall, pHuge}

\* the Last-Modified and ETag headers of a 200 response ("" when absent)
Headers == {[lm |-> "", et |-> ""], [lm |-> "lm1", et |-> "et1"]}

Resp(kind, status, readErr, body, h) ==
    [kind |-> kind, status |-> status, readErr |-> readErr, body |-> body,
     lm |-> h.lm, et |-> h.et]

NoHeaders == [lm |-> "", et |-> ""]

\* what r.Client.Do and the read of the body can give
Responses ==
    {Resp("transport", 0, FALSE, NoData, NoHeaders),
     Resp("http", 304, FALSE, NoData, NoHeaders),
     Resp("http", 500, FALSE, NoData, NoHeaders),
     Resp("http", 200, TRUE, NoData, NoHeaders)}
    \cup {Resp("http", 200, FALSE, b, h) : b \in Bodies, h \in Headers}

\* io.LimitReader(resp.Body, 3<<20): at most BodyLimit bytes are read
LimitRead(body) ==
    IF body.size <= BodyLimit THEN body
    ELSE [body EXCEPT !.size = BodyLimit, !.id = body.id + 100]

validateExclusiveBand(data) ==
    IF data.size <= MinSize \/ data.size >= MaxSize THEN "unexpected size"
    ELSE IF data.html THEN "looks like html"
    ELSE IF ~data.begin THEN "missing ICANN begin marker"
    ELSE IF ~data.end THEN "missing ICANN end marker"
    ELSE IF data.lines < MinLines THEN "too few lines"
    ELSE ""

\* validate(data): "" when the data pass, else the first check that fails
validateNoEndCheck(data) ==
    IF data.size < MinSize \/ data.size > MaxSize THEN "unexpected size"
    ELSE IF data.html THEN "looks like html"
    ELSE IF ~data.begin THEN "missing ICANN begin marker"
    ELSE IF data.lines < MinLines THEN "too few lines"
    ELSE ""

validate(data) ==
    IF data.size < MinSize \/ data.size > MaxSize THEN "unexpected size"
    ELSE IF data.html THEN "looks like html"
    ELSE IF ~data.begin THEN "missing ICANN begin marker"
    ELSE IF ~data.end THEN "missing ICANN end marker"
    ELSE IF data.lines < MinLines THEN "too few lines"
    ELSE ""

\* sha256.Sum256(data): different contents have different sums
Sum256(data) == data.id

\* loop, lines 68-83: the backoff after an attempt
BackoffAfterNoCap(ok, b) ==
    IF ok THEN 0 ELSE IF b = 0 THEN BackoffFloor ELSE b * 2

BackoffAfterNoReset(ok, b) ==
    IF ok THEN b
    ELSE LET d == IF b = 0 THEN BackoffFloor ELSE b * 2
         IN  IF d > BackoffCeil THEN BackoffCeil ELSE d

BackoffAfter(ok, b) ==
    IF ok THEN 0
    ELSE LET d == IF b = 0 THEN BackoffFloor ELSE b * 2
         IN  IF d > BackoffCeil THEN BackoffCeil ELSE d

\* loop, lines 70 and 83: the period the ticker is Reset to
DelayAfter(ok, b) == IF ok THEN Interval ELSE b

(* metrics.PSLLastRefreshUnix holds an instant; what matters of it is how it
   compares with the present: never set, the present instant, or an earlier one *)
Unset == "unset"
Now == "now"
Past == "past"

\* the gauge as seen once time has moved on
Later(at) == IF at = Now THEN Past ELSE at

NotModifiedNoop(failures, at) == [failures |-> failures, at |-> at]

\* lines 114-120: a 304 resets the failure streak and stamps the last refresh
NotModified(failures, at) == [failures |-> 0, at |-> Now]

SizeDeltaWarnsInclusive(last, size) ==
    last > 0 /\ (size <= last - (last \div 5) \/ size >= last + (last \div 5))

\* lines 199-205: the new size is more than 20% away from the last accepted one
SizeDeltaWarns(last, size) ==
    last > 0 /\ (size < last - (last \div 5) \/ size > last + (last \div 5))

----------------------------------------------------------------------------
(* pslrefresher.Refresher: the callers of tryRefresh *)

LoopId == 0
\* one caller of RefreshNow next to the loop
Manual == {1}
Callers == {LoopId} \cup Manual
NoProc == -1
NoFile == NoData

RestPc(p) == IF p = LoopId THEN "wait" ELSE "idle"

Resting(p) ==
    [pc |-> RestPc(p), ok |-> FALSE, data |-> NoData, lm |-> "", et |-> "",
     cause |-> "", verr |-> ""]

SetR(p, r) == rp' = [rp EXCEPT ![p] = r]

RMuAlwaysFree == TRUE

\* r.mu.Lock() returns only when nobody holds the mutex
RMuFree == rmu = NoProc

\* the callers inside the critical section of tryRefresh
InFlight == {p \in Callers : rp[p].pc \in {"fetch", "install", "unlock"}}

\* loop, line 67: the ticker fires (while the failure streak is below the bound)
TickBelow(bound) ==
    /\ rp[LoopId].pc = "wait"
    /\ streak < bound
    /\ SetR(LoopId, [Resting(LoopId) EXCEPT !.pc = "call"])
    /\ UNCHANGED <<destFile, lastModified, etag, consecutiveFailures, lastSize,
                   lastSHA256, rmu, backoff, first, delay, gauge, streak,
                   prevLoop, manualCalls, lastRefreshUnix, sizeWarnings>>
    /\ UNCHANGED <<idxVars, stopVars, urlVars, apiVars, srvVars>>

\* line 93: RefreshNow is called (router's /admin/psl/refresh, main)
RefreshNow(p) ==
    /\ p \in Manual
    /\ rp[p].pc = "idle"
    /\ manualCalls < MaxManualCalls
    /\ manualCalls' = manualCalls + 1
    /\ SetR(p, [Resting(p) EXCEPT !.pc = "call"])
    /\ UNCHANGED <<destFile, lastModified, etag, consecutiveFailures, lastSize,
                   lastSHA256, rmu, backoff, first, delay, gauge, streak,
                   prevLoop, lastRefreshUnix, sizeWarnings>>
    /\ UNCHANGED <<idxVars, stopVars, urlVars, apiVars, srvVars>>

\* line 96
Lock(p) ==
    /\ rp[p].pc = "call"
    /\ RMuFree
    /\ rmu' = p
    /\ SetR(p, [rp[p] EXCEPT !.pc = "fetch"])
    /\ UNCHANGED <<destFile, lastModified, etag, consecutiveFailures, lastSize,
                   lastSHA256, backoff, first, delay, gauge, streak, prevLoop,
                   manualCalls, sizeWarnings>>
    /\ lastRefreshUnix' = Later(lastRefreshUnix)
    /\ UNCHANGED <<idxVars, stopVars, urlVars, apiVars, srvVars>>

\* lines 98-142: the request, the status and the read of the body
Fetch(p) ==
    /\ rp[p].pc = "fetch"
    /\ \E resp \in Responses :
          IF resp.kind = "transport"
          THEN /\ SetR(p, [rp[p] EXCEPT !.pc = "unlock", !.ok = FALSE,
                                        !.cause = "transport"])
               /\ UNCHANGED <<consecutiveFailures, gauge, lastRefreshUnix>>
          ELSE IF resp.status = 304
          THEN /\ SetR(p, [rp[p] EXCEPT !.pc = "unlock", !.ok = TRUE,
                                        !.cause = "not modified"])
               /\ LET nm == NotModified(consecutiveFailures, lastRefreshUnix)
                  IN  /\ consecutiveFailures' = nm.failures
                      /\ lastRefreshUnix' = nm.at
               /\ UNCHANGED gauge
          ELSE IF resp.status # 200
          THEN /\ SetR(p, [rp[p] EXCEPT !.pc = "unlock", !.ok = FALSE,
                                        !.cause = "status"])
               /\ consecutiveFailures' = consecutiveFailures + 1
               /\ gauge' = consecutiveFailures' + 1
               /\ UNCHANGED lastRefreshUnix
          ELSE IF resp.readErr
          THEN /\ SetR(p, [rp[p] EXCEPT !.pc = "unlock", !.ok = FALSE,
                                        !.cause = "read"])
               /\ consecutiveFailures' = consecutiveFailures + 1
               /\ gauge' = consecutiveFailures'
               /\ UNCHANGED lastRefreshUnix
          ELSE /\ SetR(p, [rp[p] EXCEPT !.pc = "install",
                                        !.data = LimitRead(resp.body),
                                        !.lm = resp.lm, !.et = resp.et])
               /\ UNCHANGED <<consecutiveFailures, gauge, lastRefreshUnix>>
    /\ UNCHANGED <<destFile, lastModified, etag, lastSize, lastSHA256, rmu,
                   backoff, first, delay, streak, prevLoop, manualCalls,
                   sizeWarnings>>
    /\ UNCHANGED <<idxVars, stopVars, urlVars, apiVars, srvVars>>

\* lines 144-209: validate, write the temporary file, rename, bookkeeping
Install(p) ==
    /\ rp[p].pc = "install"
    /\ LET data == rp[p].data
       IN  \E io \in {"ok", "dir", "write", "rename"} :
             IF validate(data) # "" \/ io \in {"dir", "write"}
             THEN /\ SetR(p, [rp[p] EXCEPT !.pc = "unlock", !.ok = FALSE,
                                 !.cause = IF validate(data) # "" THEN "validate" ELSE io,
                                 !.verr = validate(data)])
                  /\ consecutiveFailures' = consecutiveFailures + 1
                  /\ gauge' = consecutiveFailures'
                  /\ UNCHANGED <<destFile, lastModified, etag, lastSize, lastSHA256,
                                 lastRefreshUnix, sizeWarnings>>
             ELSE IF io = "rename"
             THEN /\ SetR(p, [rp[p] EXCEPT !.pc = "unlock", !.ok = FALSE,
                                           !.cause = "rename"])
                  /\ UNCHANGED <<destFile, lastModified, etag, lastSize, lastSHA256,
                                 consecutiveFailures, gauge, lastRefreshUnix,
                                 sizeWarnings>>
             ELSE /\ SizeDeltaWarns(lastSize, data.size) => sizeWarnings < MaxWarnings
                  /\ SetR(p, [rp[p] EXCEPT !.pc = "unlock", !.ok = TRUE,
                                           !.cause = "installed"])
                  /\ destFile' = data
                  /\ lastModified' = IF rp[p].lm # "" THEN rp[p].lm ELSE lastModified
                  /\ etag' = IF rp[p].et # "" THEN rp[p].et ELSE etag
                  /\ lastRefreshUnix' = Now
                  /\ gauge' = 0
                  /\ consecutiveFailures' = 0
                  /\ lastSHA256' = Sum256(data)
                  /\ sizeWarnings' = IF SizeDeltaWarns(lastSize, data.size)
                                     THEN sizeWarnings + 1 ELSE sizeWarnings
                  /\ lastSize' = data.size
    /\ UNCHANGED <<rmu, backoff, first, delay, streak, prevLoop, manualCalls>>
    /\ UNCHANGED <<idxVars, stopVars, urlVars, apiVars, srvVars>>

\* line 97: the deferred r.mu.Unlock(), and the return of the result
Unlock(p) ==
    /\ rp[p].pc = "unlock"
    /\ rmu' = NoProc
    /\ SetR(p, IF p = LoopId THEN [rp[p] EXCEPT !.pc = "handle"] ELSE Resting(p))
    /\ UNCHANGED <<destFile, lastModified, etag, consecutiveFailures, lastSize,
                   lastSHA256, backoff, first, delay, gauge, streak, prevLoop,
                   manualCalls, lastRefreshUnix, sizeWarnings>>
    /\ UNCHANGED <<idxVars, stopVars, urlVars, apiVars, srvVars>>

\* loop, lines 68-86: the bookkeeping after a scheduled attempt
LoopHandle ==
    /\ rp[LoopId].pc = "handle"
    /\ LET ok == rp[LoopId].ok
       IN  /\ backoff' = BackoffAfter(ok, backoff)
           /\ delay' = DelayAfter(ok, backoff')
           /\ streak' = IF ok THEN 0 ELSE streak + 1
           /\ prevLoop' = IF ok THEN [ok |-> "ok", broke |-> IF streak > 2 THEN 2 ELSE streak]
                          ELSE [prevLoop EXCEPT !.ok = "fail"]
    /\ first' = FALSE
    /\ SetR(LoopId, Resting(LoopId))
    /\ UNCHANGED <<destFile, lastModified, etag, consecutiveFailures, lastSize,
                   lastSHA256, rmu, gauge, manualCalls,
                   lastRefreshUnix, sizeWarnings>>
    /\ UNCHANGED <<idxVars, stopVars, urlVars, apiVars, srvVars>>

----------------------------------------------------------------------------
(* pslrefresher.Refresher.Stop and the loop's stop case *)

\* the caller of Stop; at records where the loop was when Stop was called
IdleStopper == [pc |-> "idle", at |-> "none"]

DoneReceivedAtOnce(closed) == TRUE

\* line 55: <-r.doneCh returns only once the channel is closed
DoneReceived(closed) == closed

\* line 55: Stop closes r.stopCh
StopClose ==
    /\ sp.pc = "idle"
    /\ stopCh' = TRUE
    /\ sp' = [pc |-> "waitDone", at |-> rp[LoopId].pc]
    /\ UNCHANGED doneCh
    /\ UNCHANGED <<idxVars, refVars, urlVars, apiVars, srvVars>>

\* lines 58, 60, 65-66: the select takes the stop case, loop returns and the
\* deferred close(r.doneCh) runs
LoopExit ==
    /\ rp[LoopId].pc = "wait"
    /\ stopCh
    /\ SetR(LoopId, [rp[LoopId] EXCEPT !.pc = "exited"])
    /\ doneCh' = TRUE
    /\ UNCHANGED <<stopCh, sp>>
    /\ UNCHANGED <<destFile, lastModified, etag, consecutiveFailures, lastSize,
                   lastSHA256, rmu, backoff, first, delay, gauge, streak,
                   prevLoop, manualCalls, lastRefreshUnix, sizeWarnings>>
    /\ UNCHANGED <<idxVars, urlVars, apiVars, srvVars>>

\* line 55: Stop returns
StopReturn ==
    /\ sp.pc = "waitDone"
    /\ DoneReceived(doneCh)
    /\ sp' = [sp EXCEPT !.pc = "returned"]
    /\ UNCHANGED <<stopCh, doneCh>>
    /\ UNCHANGED <<idxVars, refVars, urlVars, apiVars, srvVars>>

\* line 52: Start launches the loop goroutine of a handle that has none
Start ==
    /\ rp[LoopId].pc = "unstarted"
    /\ SetR(LoopId, Resting(LoopId))
    /\ UNCHANGED <<destFile, lastModified, etag, consecutiveFailures, lastSize,
                   lastSHA256, rmu, backoff, first, delay, gauge, streak,
                   prevLoop, manualCalls, lastRefreshUnix, sizeWarnings>>
    /\ UNCHANGED <<idxVars, stopVars, urlVars, apiVars, srvVars>>

\* line 55: Stop is called on a handle whose Stop has returned: close of the
\* closed r.stopCh panics
StopAgain ==
    /\ sp.pc = "returned"
    /\ stopCh
    /\ sp' = [sp EXCEPT !.pc = "panicked"]
    /\ UNCHANGED <<stopCh, doneCh>>
    /\ UNCHANGED <<idxVars, refVars, urlVars, apiVars, srvVars>>

----------------------------------------------------------------------------
(* handlers.API.Blocklist (POST): remote lists *)

maxPerFetchEntries == 200000
maxLineLen == 256
maxURLBody == 12582912
cumulativeCap == 33554432

\* len(s) in bytes: "long" stands for a label of 257 letters
Width(t) == IF t = "long" THEN maxLineLen + 1 ELSE 1

RECURSIVE ByteLen(_)
ByteLen(s) == IF s = EmptyStr THEN 0 ELSE Width(Head(s)) + ByteLen(Tail(s))

\* runs of a-z, 0-9 and "-"
LabelToks == {"bad", "com", "good", "baz", "io", "quux", "org", "x", "y",
              "mail", "notbad", "neutral", "co", "uk", "www", "shop", "deny",
              "comment", "lists", "intranet", "example", "-bad", "long"}

RECURSIVE TrimDots(_)
TrimDots(s) ==
    IF s # EmptyStr /\ Head(s) = DOT THEN TrimDots(Tail(s))
    ELSE IF s # EmptyStr /\ s[Len(s)] = DOT
    THEN TrimDots(SubSeq(s, 1, Len(s) - 1))
    ELSE s

\* api.go lines 149-194
isLikelyDomain(s0) ==
    LET s == TrimDots(s0)
        parts == Split(s, DOT)
    IN  /\ s0 # EmptyStr
        /\ ~\E i \in 1..Len(s0) :
               s0[i] \in {"://", "/", AT, SP, ":", LF}
        /\ s # EmptyStr
        /\ \A i \in 1..Len(s) : s[i] = DOT \/ s[i] \in LabelToks
        /\ Contains(s, DOT)
        /\ \A i \in 1..Len(parts) :
               /\ parts[i] # EmptyStr
               /\ Head(parts[i]) # "-bad"
        /\ EffectiveTLDPlusOne(s) # EmptyStr

\* lines 161-187 and 199-221: the candidates one fetched body adds, and whether
\* the cap stopped the loop; len(candidates) is Len(cands) + bulk, where bulk
\* counts direct entries of the request that are kept as a number only
RECURSIVE FetchCandidates(_, _, _)
FetchCandidates(items, cands, bulk) ==
    IF items = << >> THEN [cands |-> cands, capped |-> FALSE]
    ELSE LET v == ToLower(TrimSpace(Head(items)))
         IN  IF \/ v = EmptyStr
                \/ HasPrefix(v, HASH)
                \/ ~isLikelyDomain(v)
                \/ ByteLen(v) > maxLineLen
                \/ EffectiveTLDPlusOne(v) = EmptyStr
             THEN FetchCandidates(Tail(items), cands, bulk)
             ELSE IF Len(cands) + bulk < maxPerFetchEntries
             THEN FetchCandidates(Tail(items),
                                  Append(cands, EffectiveTLDPlusOne(v)), bulk)
             ELSE [cands |-> cands, capped |-> TRUE]

\* lines 159-160: a JSON array of strings, as its elements; NotArray otherwise
NotArray == <<"{">>
ArrayOf(trimmed) ==
    IF /\ Len(trimmed) >= 2
       /\ Head(trimmed) = "["
       /\ trimmed[Len(trimmed)] = "]"
    THEN IF Len(trimmed) = 2 THEN << >>
         ELSE Split(SubSeq(trimmed, 2, Len(trimmed) - 1), ",")
    ELSE NotArray

\* the lists a request names
Urls ==
    {<<"https", "://", "lists", DOT, "example", "/", "list">>,
     <<"https", "://", "intranet", DOT, "example", ":", "8443", "/">>,
     <<"http", "://", "lists", DOT, "example", "/", "list">>,
     <<"https", "://", "lists", DOT, "example", "/", "%zz">>}

UrlSets == {us \in SUBSET Urls : Cardinality(us) <= MaxUrls}

\* the "entries" arrays that come with urls: a short array, or a large one of
\* which only the number of entries is kept (every one a candidate of its own):
\* one below the cap, more than the cap
FetchPayloads ==
    {[entries |-> << >>, bulk |-> 0], [entries |-> <<sBazIo>>, bulk |-> 0],
     [entries |-> << >>, bulk |-> maxPerFetchEntries - 1],
     [entries |-> << >>, bulk |-> maxPerFetchEntries + 50000]}

\* lines 103: strings.HasPrefix(u, "https://")
IsHttps(u) == Len(u) >= 2 /\ u[1] = "https" /\ u[2] = "://"

\* line 108: url.Parse fails on a bad escape
ParseFails(u) == Contains(u, "%zz")

RECURSIVE UpTo(_, _)
UpTo(s, stops) ==
    IF s = EmptyStr \/ Head(s) \in stops THEN EmptyStr
    ELSE <<Head(s)>> \o UpTo(Tail(s), stops)

\* lines 113-116: parsed.Host without its port
HostOf(u) == UpTo(SubSeq(u, 3, Len(u)), {"/", ":"})

\* what net.LookupIP may answer: no address, one address, or two
DnsAnswers ==
    {<< >>} \cup {<<ip>> : ip \in IPs}
            \cup {<<V4(8, 8, 8, 8), V4(10, 0, 0, 5)>>,
                  <<V4(8, 8, 8, 8), V4(1, 1, 1, 1)>>}

\* lines 122-127: the verdicts of the loop, up to the first disallowed address
RECURSIVE CheckIps(_)
CheckIps(ips) ==
    IF ips = << >> THEN << >>
    ELSE LET v == [ip |-> Head(ips), bad |-> isDisallowedIP(Head(ips))]
         IN  IF v.bad THEN <<v>> ELSE <<v>> \o CheckIps(Tail(ips))

\* what client.Get and io.ReadAll may give: a transport error, a status, a read
\* error, or a body (a JSON array, a JSON object, text) of some size
ListResponses ==
    LET bArray == <<"[">> \o sBazIo \o <<",">> \o sSubBadCom \o <<",">> \o
                  sCoUk \o <<"]", LF>>
        bObject == <<"{", "x", "}">>
        bText == <<HASH, "comment", LF>> \o sQuuxOrgMixed \o
                 <<LF, "https", "://", "lists", DOT, "example", LF, "long",
                   DOT, "com", LF, "-bad", DOT, "com", LF>> \o sBazIo
        bNothing == <<HASH, "comment", LF>>
        Failed(err, status, readErr) ==
            [err |-> err, status |-> status, readErr |-> readErr, size |-> 0,
             data |-> EmptyStr]
        Body(status, size, data) ==
            [err |-> FALSE, status |-> status, readErr |-> FALSE, size |-> size,
             data |-> data]
    IN  {Failed(TRUE, 0, FALSE), Failed(FALSE, 404, FALSE),
         Failed(FALSE, 200, TRUE),
         Body(200, maxURLBody + 1, bText), Body(200, maxURLBody, bText),
         Body(200, ByteLen(bArray), bArray), Body(204, ByteLen(bObject), bObject),
         Body(200, ByteLen(bNothing), bNothing)}

\* the request goroutine that takes the requests with urls
FetchThread == 1

IdleFetch ==
    [pc |-> "idle", cands |-> << >>, pending |-> {}, cur |-> EmptyStr,
     seen |-> << >>, fetched |-> {}, cumulative |-> 0, err |-> "none",
     bulk |-> 0, capped |-> FALSE]

\* respondError(w, http.StatusBadRequest, msg)
FetchReject(msg) ==
    /\ fx' = [fx EXCEPT !.pc = "rejected", !.err = msg]
    /\ Set(FetchThread, [IdleThread EXCEPT !.pc = "done", !.op = "ingest",
                                            !.code = 400])

\* lines 54-96: decode the body, collect the entries and the urls
FetchBegin ==
    /\ CanStart(FetchThread)
    /\ \E p \in FetchPayloads, urls \in UrlSets :
          IF p.entries = << >> /\ p.bulk = 0 /\ urls = {}
          THEN FetchReject("provide entries or url(s)")
          ELSE /\ fx' = [IdleFetch EXCEPT !.pc = "next",
                                          !.cands = CollectCandidates(p.entries),
                                          !.bulk = p.bulk, !.pending = urls]
               /\ Set(FetchThread, [IdleThread EXCEPT !.pc = "fetching",
                                                       !.op = "ingest"])
    /\ ops' = ops + 1
    /\ UNCHANGED <<allowFile, blockFile, allow, block, rawAllow, rawBlock,
                   updatedAt, ready, blMu, clock>>
    /\ UNCHANGED <<refVars, stopVars, apiVars, srvVars>>

\* lines 102-127: the next url of the map, in any order; scheme, parse, lookup,
\* address check
FetchResolve ==
    /\ fx.pc = "next"
    /\ \E u \in fx.pending :
          IF ~IsHttps(u)
          THEN FetchReject("only https scheme allowed for remote lists")
          ELSE IF ParseFails(u) THEN FetchReject("invalid url")
          ELSE \E ips \in DnsAnswers :
                  LET seen == CheckIps(ips)
                  IN  IF ips = << >>
                      THEN FetchReject("dns lookup failed for host")
                      ELSE IF seen[Len(seen)].bad
                      THEN /\ fx' = [fx EXCEPT !.pc = "rejected", !.cur = u,
                                               !.seen = seen,
                                               !.err = "disallowed host ip range"]
                           /\ Set(FetchThread,
                                  [IdleThread EXCEPT !.pc = "done",
                                                     !.op = "ingest",
                                                     !.code = 400])
                      ELSE /\ fx' = [fx EXCEPT !.pc = "get", !.cur = u,
                                               !.seen = seen,
                                               !.pending = fx.pending \ {u}]
                           /\ th' = th
    /\ UNCHANGED <<allowFile, blockFile, allow, block, rawAllow, rawBlock,
                   updatedAt, ready, blMu, clock, ops>>
    /\ UNCHANGED <<refVars, stopVars, apiVars, srvVars>>

\* lines 129-226: fetch the url and take the candidates of its body
FetchGet ==
    /\ fx.pc = "get"
    /\ \E r \in ListResponses :
          LET got == [fx EXCEPT !.fetched = fx.fetched \cup {fx.cur},
                                !.seen = << >>]
              cumulative == fx.cumulative + r.size
              trimmed == TrimSpace(r.data)
              items == IF ArrayOf(trimmed) # NotArray THEN ArrayOf(trimmed)
                       ELSE ScanLines(r.data)
              more == FetchCandidates(items, fx.cands, fx.bulk)
              bad(msg) ==
                  /\ fx' = [got EXCEPT !.pc = "rejected", !.err = msg]
                  /\ Set(FetchThread, [IdleThread EXCEPT !.pc = "done",
                                                          !.op = "ingest",
                                                          !.code = 400])
          IN  IF r.err THEN bad("failed to fetch url")
              ELSE IF r.status < 200 \/ r.status >= 300
              THEN bad("fetch url status")
              ELSE IF r.readErr THEN bad("failed reading url body")
              ELSE IF r.size > maxURLBody THEN bad("url body too large")
              ELSE IF cumulative > cumulativeCap
              THEN bad("cumulative fetched data too large")
              ELSE IF ArrayOf(trimmed) = NotArray /\ HasPrefix(trimmed, "{")
              THEN bad("unsupported JSON document")
              ELSE /\ fx' = [got EXCEPT
                                !.pc = IF fx.pending = {} THEN "collected"
                                       ELSE "next",
                                !.cumulative = cumulative,
                                !.cands = more.cands,
                                !.capped = fx.capped \/ more.capped]
                   /\ th' = th
    /\ UNCHANGED <<allowFile, blockFile, allow, block, rawAllow, rawBlock,
                   updatedAt, ready, blMu, clock, ops>>
    /\ UNCHANGED <<refVars, stopVars, apiVars, srvVars>>

\* lines 97 and 229-236: no url (left) to fetch; the candidates go on to the
\* deduplication (a request with entries kept as a number is not followed
\* further); line 297: the reload parameter of the request is read later on
FetchCollected ==
    /\ \/ fx.pc = "collected"
       \/ fx.pc = "next" /\ fx.pending = {}
    /\ IF fx.cands = << >> /\ fx.bulk = 0
       THEN FetchReject("no valid entries to add")
       ELSE IF fx.bulk > 0
       THEN /\ fx' = [fx EXCEPT !.pc = "handed"]
            /\ Set(FetchThread, [th[FetchThread] EXCEPT !.pc = "dedupBulk"])
       ELSE /\ fx' = [fx EXCEPT !.pc = "handed"]
            /\ \E reload \in BOOLEAN :
                  Set(FetchThread, [th[FetchThread] EXCEPT
                                      !.pc = "ingDedup", !.cands = fx.cands,
                                      !.reload = reload])
    /\ UNCHANGED <<allowFile, blockFile, allow, block, rawAllow, rawBlock,
                   updatedAt, ready, blMu, clock, ops>>
    /\ UNCHANGED <<refVars, stopVars, apiVars, srvVars>>

----------------------------------------------------------------------------
(* middleware.AdminGuard, middleware.AdminGuardMulti *)

\* what the guard does with a request: next.ServeHTTP is called, or the
\* response has the status
Passed == [invoked |-> TRUE, status |-> 0]
Refused(status) == [invoked |-> FALSE, status |-> status]

IsSafeMethod(method) == method \in {"GET", "HEAD", "OPTIONS"}

\* admin.go lines 23-54
AdminGuard(adminToken, method, supplied) ==
    IF IsSafeMethod(method) THEN Passed
    ELSE IF adminToken = "" THEN Refused(403)
    ELSE IF supplied = "" THEN Refused(401)
    ELSE IF supplied # adminToken THEN Refused(403)
    ELSE Passed

NonEmptyToken(t) == t # ""

AdminGuardMultiFirstOnly(tokens, method, supplied) ==
    LET tokenBytes == SelectSeq(tokens, NonEmptyToken)
    IN  IF IsSafeMethod(method) THEN Passed
        ELSE IF tokenBytes = << >> THEN Refused(403)
        ELSE IF supplied = "" THEN Refused(401)
        ELSE IF supplied # tokenBytes[1] THEN Refused(403)
        ELSE Passed

\* admin.go lines 59-101
AdminGuardMulti(tokens, method, supplied) ==
    LET tokenBytes == SelectSeq(tokens, NonEmptyToken)
    IN  IF IsSafeMethod(method) THEN Passed
        ELSE IF tokenBytes = << >> THEN Refused(403)
        ELSE IF supplied = "" THEN Refused(401)
        ELSE IF ~\E i \in 1..Len(tokenBytes) : supplied = tokenBytes[i]
        THEN Refused(403)
        ELSE Passed

\* the guards a server is built with: AdminGuard(token) or
\* AdminGuardMulti(tokens)
GuardConfigs ==
    {[multi |-> FALSE, tokens |-> <<"">>], [multi |-> FALSE, tokens |-> <<"tokA">>],
     [multi |-> TRUE, tokens |-> << >>], [multi |-> TRUE, tokens |-> <<"">>],
     [multi |-> TRUE, tokens |-> <<"tokA", "tokB">>],
     [multi |-> TRUE, tokens |-> <<"", "tokB">>]}

Guard(cfg, method, supplied) ==
    IF cfg.multi THEN AdminGuardMulti(cfg.tokens, method, supplied)
    ELSE AdminGuard(cfg.tokens[1], method, supplied)

----------------------------------------------------------------------------
(* handlers: parseBatchStrings, decodeJSON, CheckEmailsBatch *)

batchMaxItems == 200000

\* r.Body is a stream: data is the document it carries, read says that it has
\* been read to its end (and closed)
Stream(data) == [data |-> data, read |-> FALSE]

\* the JSON documents: an array of strings, or an object whose keys map to an
\* array of strings or to something else (NotAList)
NotAList == "scalar"
JArray(elems) == [kind |-> "array", elems |-> elems]
JObject(keys) == [kind |-> "object", keys |-> keys]
JText(text) == [kind |-> "text", text |-> text]

\* api.go lines 120-146: decode the body as the wanted kind of document; the
\* decoder reads the body, and the deferred r.Body.Close() closes it
decodeJSON(body, want) ==
    IF body.read
    THEN [ok |-> FALSE, body |-> body]
    ELSE [ok |-> body.data.kind = want, body |-> [body EXCEPT !.read = TRUE]]

\* part_002 lines 370-380
RECURSIVE sanitizeStrings(_)
sanitizeStrings(in) ==
    IF in = << >> THEN << >>
    ELSE IF TrimSpace(Head(in)) = EmptyStr THEN sanitizeStrings(Tail(in))
    ELSE <<TrimSpace(Head(in))>> \o sanitizeStrings(Tail(in))

BatchKeys == <<"items", "values", "emails", "domains">>

NoItems == [ok |-> FALSE, items |-> << >>]

\* part_002 lines 331-345: the first of the keys that holds an array
RECURSIVE FirstList(_, _)
FirstList(keys, obj) ==
    IF keys = << >> THEN NoItems
    ELSE IF Head(keys) \in DOMAIN obj /\ obj[Head(keys)] # NotAList
    THEN [ok |-> TRUE, items |-> sanitizeStrings(obj[Head(keys)])]
    ELSE FirstList(Tail(keys), obj)

\* part_002 line 319: strings.HasPrefix(ct, "application/json")
IsJsonType(ct) == Len(ct) > 0 /\ ct[1] = "application/json"

\* part_002 lines 317-368
parseBatchStrings(ct, body) ==
    IF IsJsonType(ct)
    THEN LET arr == decodeJSON(body, "array")
             obj == decodeJSON(arr.body, "object")
         IN  IF arr.ok
             THEN [ok |-> TRUE, items |-> sanitizeStrings(body.data.elems)]
             ELSE IF ~obj.ok THEN NoItems
             ELSE FirstList(BatchKeys, body.data.keys)
    ELSE LET lines == IF body.data.kind = "text"
                      THEN sanitizeStrings(ScanLines(body.data.text))
                      ELSE << >>
         IN  IF lines = << >> THEN NoItems
             ELSE [ok |-> TRUE, items |-> lines]

\* the requests
Methods == {"GET", "HEAD", "OPTIONS", "POST", "DELETE"}
SuppliedTokens == {"", "tokA", "tokB", "bad"}
JsonType == <<"application/json", "; charset=utf-8">>
TextType == <<"text/plain">>

BatchBodies ==
    LET two == <<sUserAtGood, sSubBadCom>>
    IN  {[ct |-> JsonType, data |-> JArray(two)],
         [ct |-> JsonType, data |-> JArray(<<sPaddedBad, sBlank>>)],
         [ct |-> JsonType, data |-> JObject([k \in {"items"} |-> two])],
         [ct |-> JsonType, data |-> JObject([k \in {"emails"} |-> two])],
         [ct |-> JsonType,
          data |-> JObject([k \in {"items", "domains"} |->
                               IF k = "items" THEN NotAList ELSE <<sBazIo>>])],
         [ct |-> JsonType, data |-> JObject([k \in {"other"} |-> two])],
         [ct |-> JsonType, data |-> JText(sBazIo)],
         [ct |-> TextType, data |-> JText(sBazIo \o <<LF>> \o sBlank \o <<LF>>)],
         [ct |-> TextType, data |-> JText(sBlank)]}

IdleRequest ==
    [pc |-> "idle", method |-> "GET", supplied |-> "", ct |-> TextType,
     body |-> Stream(JText(EmptyStr)), invoked |-> FALSE, code |-> 0,
     items |-> << >>, results |-> << >>]

Answer(r, code) == rq' = [r EXCEPT !.pc = "done", !.code = code]

\* a request to /check/emails arrives
ApiRequest ==
    /\ rq.pc \in {"idle", "done"}
    /\ \E method \in Methods, supplied \in SuppliedTokens, b \in BatchBodies :
          rq' = [IdleRequest EXCEPT !.pc = "guard", !.method = method,
                                    !.supplied = supplied, !.ct = b.ct,
                                    !.body = Stream(b.data)]
    /\ UNCHANGED <<adminTokens>>
    /\ UNCHANGED <<idxVars, refVars, stopVars, urlVars, srvVars>>

\* router.go line 91: the guard is in front of every handler
GuardServe ==
    /\ rq.pc = "guard"
    /\ LET g == Guard(adminTokens, rq.method, rq.supplied)
       IN  IF g.invoked
           THEN rq' = [rq EXCEPT !.pc = "handler", !.invoked = TRUE]
           ELSE Answer(rq, g.status)
    /\ UNCHANGED <<adminTokens>>
    /\ UNCHANGED <<idxVars, refVars, stopVars, urlVars, srvVars>>

\* part_002 lines 84-101: method, readiness, parseBatchStrings
BatchParse ==
    /\ rq.pc = "handler"
    /\ LET p == parseBatchStrings(rq.ct, rq.body)
       IN  IF rq.method # "POST" THEN Answer(rq, 405)
           ELSE IF ~ready THEN Answer(rq, 503)
           ELSE IF ~p.ok
           THEN Answer([rq EXCEPT !.body.read = TRUE], 400)
           ELSE rq' = [rq EXCEPT !.pc = "classify", !.items = p.items,
                                 !.body.read = TRUE]
    /\ UNCHANGED <<adminTokens>>
    /\ UNCHANGED <<idxVars, refVars, stopVars, urlVars, srvVars>>

\* part_002 lines 106-118: the limit, then Check on every item, in order
BatchClassify ==
    /\ rq.pc = "classify"
    /\ IF Len(rq.items) > batchMaxItems THEN Answer(rq, 413)
       ELSE Answer([rq EXCEPT !.results =
                        [i \in 1..Len(rq.items) |->
                            CheckLookup(rq.items[i], allow, block)]], 200)
    /\ UNCHANGED <<adminTokens>>
    /\ UNCHANGED <<idxVars, refVars, stopVars, urlVars, srvVars>>

----------------------------------------------------------------------------
(* The locks: a.blMu, a.statusMu, the index lock c.mu, the refresher's r.mu *)

Goroutines == {1, 2, 3}

\* a sync.RWMutex: the goroutine holding it for writing (0: none), the
\* goroutines holding it for reading, and the goroutines that have called
\* Lock and wait for the readers to leave (new readers wait behind them)
NoHolders == [w |-> 0, r |-> {}, q |-> {}]

IdleGoroutine == [op |-> "none", at |-> 0]

LockNames == {"blMu", "statusMu", "cmu", "rmu"}

Ins(k, l) == [k |-> k, l |-> l]

\* mu.Lock() of a sync.Mutex
MLock(l) == <<Ins("Lock", l)>>

\* mu.Lock() of a sync.RWMutex: announce, then wait for readers and writer
WLock(l) == <<Ins("Want", l), Ins("Lock", l)>>

Unlocked(l) == <<Ins("Unlock", l)>>

\* mu.RLock(); ...; mu.RUnlock()
Read(l) == <<Ins("RLock", l), Ins("RUnlock", l)>>

\* checker.go:46-52: Load swaps the lists under c.mu
LoadLocks == WLock("cmu") \o Unlocked("cmu")

\* Checker.PatchBlock (called at part_003:283): inserts under c.mu
PatchLocks == WLock("cmu") \o Unlocked("cmu")

\* Checker.IsReady, BlockCount, AllowCount: one read of the index each
AccessorLocks == Read("cmu")

\* checker.go:179-182 and 250-261: Validate copies under two read locks
ValidateLocks == Read("cmu") \o Read("cmu")

\* part_003:287-290: the status snapshot takes n counts of the index
StatusUpdateLocks(n) ==
    WLock("statusMu")
        \o (IF n = 2 THEN AccessorLocks \o AccessorLocks ELSE AccessorLocks)
        \o Unlocked("statusMu")

\* a reload that takes the status lock while it still holds the index lock
ReloadLocksNested(strict) ==
    WLock("cmu") \o WLock("statusMu") \o Unlocked("statusMu") \o Unlocked("cmu")

\* Checker.Reload(strict) followed by the status update, part_003:354-364
\* and 299-306
ReloadLocks(strict) ==
    LoadLocks \o (IF strict THEN ValidateLocks ELSE << >>) \o StatusUpdateLocks(2)

\* part_003:258-292
IngestLocks ==
    MLock("blMu") \o PatchLocks \o StatusUpdateLocks(1) \o Unlocked("blMu")

LockOps == {"blocklist", "blocklistFail", "blocklistReload", "reload",
            "reloadStrict", "initStatus", "status", "check", "validate",
            "refresh"}

\* the lock and unlock calls of one operation, in program order
Program(op) ==
    CASE op = "blocklist" -> IngestLocks
      \* part_003:271-280: a failed write or rename releases blMu and returns
      [] op = "blocklistFail" -> MLock("blMu") \o Unlocked("blMu")
      \* part_003:296-308
      [] op = "blocklistReload" -> IngestLocks \o ReloadLocks(FALSE)
      [] op = "reload" -> ReloadLocks(FALSE)
      [] op = "reloadStrict" -> ReloadLocks(TRUE)
      \* api.go:59-72
      [] op = "initStatus" -> AccessorLocks \o StatusUpdateLocks(2)
      \* part_003:498-510
      [] op = "status" -> AccessorLocks \o Read("statusMu")
      \* checker.go:143-146 and 157-159
      [] op = "check" -> Read("cmu") \o Read("cmu")
      [] op = "validate" -> ValidateLocks
      \* part_000:95-97
      [] op = "refresh" -> MLock("rmu") \o Unlocked("rmu")

\* the four locks seen alike
Cur(l) ==
    CASE l = "blMu" -> [w |-> blMu, r |-> {}, q |-> {}]
      [] l = "rmu" -> [w |-> IF rmu = NoProc THEN 0 ELSE rmu, r |-> {}, q |-> {}]
      [] l = "statusMu" -> statusMu
      [] l = "cmu" -> cmu

\* whether the call returns now or blocks
CanDo(g, i) ==
    CASE i.k = "Lock" -> Cur(i.l).w = 0 /\ Cur(i.l).r = {}
      [] i.k = "RLock" -> Cur(i.l).w = 0 /\ Cur(i.l).q = {}
      [] OTHER -> TRUE

After(g, i) ==
    CASE i.k = "Want" -> [Cur(i.l) EXCEPT !.q = @ \cup {g}]
      [] i.k = "Lock" -> [Cur(i.l) EXCEPT !.w = g, !.q = @ \ {g}]
      [] i.k = "Unlock" -> [Cur(i.l) EXCEPT !.w = 0]
      [] i.k = "RLock" -> [Cur(i.l) EXCEPT !.r = @ \cup {g}]
      [] i.k = "RUnlock" -> [Cur(i.l) EXCEPT !.r = @ \ {g}]

idxRest == <<allowFile, blockFile, allow, block, rawAllow, rawBlock,
             updatedAt, ready, th, clock, ops>>
refRest == <<destFile, lastModified, etag, consecutiveFailures,
             lastSize, lastSHA256, rp, backoff, first, delay, gauge,
             lastRefreshUnix, sizeWarnings, streak, prevLoop, manualCalls>>

\* a request or the refresher starts one of the operations
LockBegin(g) ==
    /\ lp[g].op = "none"
    /\ \E op \in LockOps : lp' = [lp EXCEPT ![g] = [op |-> op, at |-> 1]]
    /\ UNCHANGED <<idxVars, refVars, stopVars, urlVars, apiVars, statusMu, cmu, rl>>

\* the goroutine's next lock or unlock call returns
LockStep(g) ==
    /\ lp[g].op # "none"
    /\ lp[g].at <= Len(Program(lp[g].op))
    /\ LET i == Program(lp[g].op)[lp[g].at]
       IN  /\ CanDo(g, i)
           /\ blMu' = IF i.l = "blMu" THEN After(g, i).w ELSE blMu
           /\ rmu' = IF i.l = "rmu"
                     THEN (IF After(g, i).w = 0 THEN NoProc ELSE After(g, i).w)
                     ELSE rmu
           /\ statusMu' = IF i.l = "statusMu" THEN After(g, i) ELSE statusMu
           /\ cmu' = IF i.l = "cmu" THEN After(g, i) ELSE cmu
    /\ lp' = [lp EXCEPT ![g].at = @ + 1]
    /\ UNCHANGED <<idxRest, refRest, stopVars, urlVars, apiVars, rl>>

\* the operation returns
LockReturn(g) ==
    /\ lp[g].op # "none"
    /\ lp[g].at > Len(Program(lp[g].op))
    /\ lp' = [lp EXCEPT ![g] = IdleGoroutine]
    /\ UNCHANGED <<idxVars, refVars, stopVars, urlVars, apiVars, statusMu, cmu, rl>>

----------------------------------------------------------------------------
(* router.RateLimiter: one client address *)

(* Time is counted in ticks. A configuration gives ttl, burst and the number
   of ticks in which one token is refilled (1/rps); the sweeper's ticker has
   the period ttl/2. Tokens are counted in units of 1/every of a token. *)
LimiterConfigs ==
    {[ttl |-> 4, burst |-> 2, every |-> 6], [ttl |-> 4, burst |-> 1, every |-> 1],
     [ttl |-> 2, burst |-> 2, every |-> 2]}

NoBucket == [credit |-> -1, at |-> -1, last |-> -1]

\* rate.NewLimiter(rps, burst) and the entry made for a new address
NewEntry(cfg, now) ==
    [credit |-> cfg.burst * cfg.every, at |-> now, last |-> now]

\* rate.Limiter.Allow at the instant now: [ok, e]; the tokens refilled since
\* the limiter's last update are added up to burst, and one is taken if there
\* is one; a refusal leaves the limiter as it is
Allow(cfg, e, now) ==
    LET refilled == e.credit + (now - e.at)
        tokens == IF refilled > cfg.burst * cfg.every
                  THEN cfg.burst * cfg.every ELSE refilled
    IN  IF tokens >= cfg.every
        THEN [ok |-> TRUE, e |-> [e EXCEPT !.credit = tokens - cfg.every,
                                           !.at = now]]
        ELSE [ok |-> FALSE, e |-> e]

\* router.go lines 332-338: what the sweep leaves of the map
Swept(cfg, e, now) ==
    IF e # NoBucket /\ e.last < now - cfg.ttl THEN NoBucket ELSE e

\* prev and made are history: the instant of the client's previous request
\* and whether its last request made a new bucket
RlInit ==
    \E cfg \in LimiterConfigs :
        rl = [cfg |-> cfg, now |-> 0, m |-> NoBucket,
              sweepAt |-> cfg.ttl \div 2, ev |-> "none", code |-> 0,
              prev |-> -1, made |-> FALSE]

\* time passes; the sweeper's ticker fires when its period is over
RlTime ==
    /\ rl.now < MaxTime
    /\ rl.now < rl.sweepAt
    /\ rl' = [rl EXCEPT !.now = rl.now + 1, !.ev = "time"]
    /\ UNCHANGED <<statusMu, cmu, lp>>
    /\ UNCHANGED <<idxVars, refVars, stopVars, urlVars, apiVars>>

\* router.go lines 328-341: the cleanup goroutine, under mu
RlSweep ==
    /\ rl.now = rl.sweepAt
    /\ rl' = [rl EXCEPT !.m = Swept(rl.cfg, rl.m, rl.now),
                        !.sweepAt = rl.sweepAt + rl.cfg.ttl \div 2,
                        !.ev = "sweep"]
    /\ UNCHANGED <<statusMu, cmu, lp>>
    /\ UNCHANGED <<idxVars, refVars, stopVars, urlVars, apiVars>>

\* router.go lines 363-381: a request of the client, under mu
RlRequest ==
    /\ LET found == rl.m # NoBucket
           e == IF found THEN rl.m ELSE NewEntry(rl.cfg, rl.now)
           a == Allow(rl.cfg, e, rl.now)
       IN  rl' = [rl EXCEPT
                    !.m = IF a.ok THEN [a.e EXCEPT !.last = rl.now] ELSE a.e,
                    !.code = IF a.ok THEN 200 ELSE 429,
                    !.ev = "request", !.prev = rl.now, !.made = ~found]
    /\ UNCHANGED <<statusMu, cmu, lp>>
    /\ UNCHANGED <<idxVars, refVars, stopVars, urlVars, apiVars>>

----------------------------------------------------------------------------
(* Initial states and specifications *)

\* the other specifications leave the locks free and the limiter unused
SrvInit ==
    /\ statusMu = NoHolders
    /\ cmu = NoHolders
    /\ lp = [g \in Goroutines |-> IdleGoroutine]
    /\ rl = [cfg |-> [ttl |-> 4, burst |-> 2, every |-> 6], now |-> 0,
             m |-> NoBucket, sweepAt |-> 2, ev |-> "none", code |-> 0,
             prev |-> -1, made |-> FALSE]

\* the other specifications run behind one guard and without batch requests
ApiInit ==
    /\ adminTokens = [multi |-> TRUE, tokens |-> <<"tokA", "tokB">>]
    /\ rq = IdleRequest

UrlInit == fx = IdleFetch

StopInit ==
    /\ stopCh = FALSE
    /\ doneCh = FALSE
    /\ sp = IdleStopper

\* NewChecker, and the list files as they are found
IdxInit ==
    /\ \E f \in ListFiles : allowFile = f.allow /\ blockFile = f.block
    /\ allow = {}
    /\ block = {}
    /\ rawAllow = << >>
    /\ rawBlock = << >>
    /\ updatedAt = 0
    /\ ready = FALSE
    /\ blMu = NoThread
    /\ th = [t \in Threads |-> IdleThread]
    /\ clock = 1
    /\ ops = 0

\* New: the fields of the handle; loop is the record of the loop goroutine and
\* holder the caller inside tryRefresh, where the run begins
RefInitWith(loop, holder) ==
    /\ destFile = NoFile
    /\ lastModified = ""
    /\ etag = ""
    /\ consecutiveFailures = 0
    /\ lastSize = 0
    /\ lastSHA256 = 0
    /\ rmu = holder
    /\ rp = [p \in Callers |-> IF p = LoopId THEN loop ELSE Resting(p)]
    /\ backoff = 0
    /\ first = TRUE
    /\ delay = FirstDelay
    /\ gauge = 0
    /\ lastRefreshUnix = Unset
    /\ sizeWarnings = 0
    /\ streak = 0
    /\ prevLoop = [ok |-> "none", broke |-> 0]
    /\ manualCalls = 0

\* New and Start: the loop waits for its first tick
RefInit == RefInitWith(Resting(LoopId), NoProc)

Init == IdxInit /\ RefInit /\ StopInit /\ UrlInit /\ ApiInit /\ SrvInit

Next ==
    \E t \in Threads :
        \/ CheckBegin(t)
        \/ CheckEnd(t)
        \/ ReloadBegin(t)
        \/ LoadReadAllow(t)
        \/ LoadReadBlock(t)
        \/ LoadSwap(t)
        \/ IngestBegin(t)
        \/ IngestDedup(t)
        \/ IngestLock(t)
        \/ IngestWriteTmp(t)
        \/ IngestRename(t)
        \/ IngestPatch(t)
        \/ IngestUnlock(t)
        \/ IngestRespond(t)

\* the list index and the ingestion handler
Spec == Init /\ [][Next]_vars

\* the list files the reports are made of: [allow, block]
ValidateFiles ==
    LET good == sGoodCom \o <<LF>>
        third == sBadCom \o <<LF, "sub", DOT, "example", DOT, "com", LF, "deep",
                               DOT, "sub", DOT, "example", DOT, "com", LF>>
    IN  ListFiles \cup
        {[allow |-> good, block |-> third],
         [allow |-> good, block |-> sBadComUpper \o <<LF>> \o sBadCom \o <<LF>>],
         [allow |-> good, block |-> sQuuxOrg \o <<LF>> \o sBadCom \o <<LF>>],
         [allow |-> good,
          block |-> sBadCom \o <<LF>> \o sBadCom \o <<LF>> \o sCoUk \o <<LF>>]}

\* NewChecker, over the list files above
ValidateInit ==
    /\ \E f \in ValidateFiles : allowFile = f.allow /\ blockFile = f.block
    /\ allow = {}
    /\ block = {}
    /\ rawAllow = << >>
    /\ rawBlock = << >>
    /\ updatedAt = 0
    /\ ready = FALSE
    /\ blMu = NoThread
    /\ th = [t \in Threads |-> IdleThread]
    /\ clock = 1
    /\ ops = 0
    /\ RefInit /\ StopInit /\ UrlInit /\ ApiInit /\ SrvInit

NextValidate ==
    \E t \in Threads :
        \/ ReloadBegin(t)
        \/ ReloadStrictBegin(t)
        \/ ValidateBegin(t)
        \/ LoadReadAllow(t)
        \/ LoadReadBlock(t)
        \/ LoadSwap(t)
        \/ ValidateSnap(t)
        \/ ValidateInter(t)

\* reloads and reports side by side
SpecValidate == ValidateInit /\ [][NextValidate]_vars

\* a server built with any of the guards; the lists are loaded by thread 1
InitApi ==
    /\ IdxInit /\ RefInit /\ StopInit /\ UrlInit
    /\ adminTokens \in GuardConfigs
    /\ rq = IdleRequest
    /\ SrvInit

NextApi ==
    \/ ApiRequest
    \/ GuardServe
    \/ BatchParse
    \/ BatchClassify
    \/ ReloadBegin(1)
    \/ LoadReadAllow(1)
    \/ LoadReadBlock(1)
    \/ LoadSwap(1)

\* requests through the admin guard to the batch check handler
SpecApi == InitApi /\ [][NextApi]_vars

\* an ingestion request with urls runs to its answer, alone
NextFetch ==
    \/ FetchBegin
    \/ FetchResolve
    \/ FetchGet
    \/ FetchCollected
    \/ IngestDedup(FetchThread)
    \/ IngestLock(FetchThread)
    \/ IngestWriteTmp(FetchThread)
    \/ IngestRename(FetchThread)
    \/ IngestPatch(FetchThread)
    \/ IngestUnlock(FetchThread)
    \/ IngestRespond(FetchThread)
    \/ LoadReadAllow(FetchThread)
    \/ LoadReadBlock(FetchThread)
    \/ LoadSwap(FetchThread)

\* the ingestion handler with remote lists
SpecFetch == Init /\ [][NextFetch]_vars

\* the list files do not change while only the refresher runs
IdxFrozen ==
    /\ allowFile = fAllowGoodBad
    /\ blockFile = fBlockHeaderNoNl
    /\ allow = {}
    /\ block = {}
    /\ rawAllow = << >>
    /\ rawBlock = << >>
    /\ updatedAt = 0
    /\ ready = FALSE
    /\ blMu = NoThread
    /\ th = [t \in Threads |-> IdleThread]
    /\ clock = 1
    /\ ops = 0

InitRefresher == IdxFrozen /\ RefInit /\ StopInit /\ UrlInit /\ ApiInit /\ SrvInit

Tick == TickBelow(MaxConcStreak)

NextRefresher ==
    \/ Tick
    \/ LoopHandle
    \/ \E p \in Callers :
          \/ RefreshNow(p)
          \/ Lock(p)
          \/ Fetch(p)
          \/ Install(p)
          \/ Unlock(p)

\* the refresher: the scheduled loop and the callers of RefreshNow
SpecRefresher == InitRefresher /\ [][NextRefresher]_vars

TickLoop == TickBelow(MaxStreak)

NextLoop ==
    \/ TickLoop
    \/ Lock(LoopId)
    \/ Fetch(LoopId)
    \/ Install(LoopId)
    \/ Unlock(LoopId)
    \/ LoopHandle

\* the scheduled loop alone, over long failure streaks
SpecLoop == InitRefresher /\ [][NextLoop]_vars

TickStop == TickBelow(MaxConcStreak)

NextStop ==
    \/ TickStop
    \/ Lock(LoopId)
    \/ Fetch(LoopId)
    \/ Install(LoopId)
    \/ Unlock(LoopId)
    \/ LoopHandle
    \/ StopClose
    \/ LoopExit
    \/ StopReturn

(* An attempt always goes on (the "http" client has a timeout, line 44); a
   select with a ready stop case takes it sooner or later (Go chooses among
   the ready cases at random); a receive on a closed channel returns. *)
FairStop ==
    /\ WF_vars(Lock(LoopId)) /\ WF_vars(Fetch(LoopId)) /\ WF_vars(Install(LoopId))
    /\ WF_vars(Unlock(LoopId)) /\ WF_vars(LoopHandle)
    /\ SF_vars(LoopExit)
    /\ WF_vars(StopReturn)

\* the ticker fires until the first scheduled attempt has failed
TickShutdown == TickBelow(1)

NextShutdown ==
    \/ TickShutdown
    \/ LoopHandle
    \/ StopClose
    \/ LoopExit
    \/ StopReturn
    \/ \E p \in Callers :
          \/ RefreshNow(p)
          \/ Lock(p)
          \/ Fetch(p)
          \/ Install(p)
          \/ Unlock(p)

\* shutdown: the loop, a caller of Stop and the callers of RefreshNow
SpecShutdown == InitRefresher /\ [][NextShutdown]_vars

\* the rate limiter with one client
InitLimiter ==
    /\ IdxFrozen /\ RefInit /\ StopInit /\ UrlInit /\ ApiInit
    /\ statusMu = NoHolders /\ cmu = NoHolders
    /\ lp = [g \in Goroutines |-> IdleGoroutine]
    /\ RlInit

NextLimiter ==
    \/ RlTime
    \/ RlSweep
    \/ RlRequest

SpecLimiter == InitLimiter /\ [][NextLimiter]_vars

\* three goroutines running handlers and refresher attempts
InitLocks ==
    /\ IdxFrozen /\ RefInit /\ StopInit /\ UrlInit /\ ApiInit /\ SrvInit

NextLocks ==
    \E g \in Goroutines :
        \/ LockBegin(g)
        \/ LockStep(g)
        \/ LockReturn(g)

SpecLocks == InitLocks /\ [][NextLocks]_vars

\* a handle fresh from New: Start has not been called
InitLifecycle ==
    /\ IdxFrozen /\ StopInit /\ UrlInit /\ ApiInit /\ SrvInit
    /\ RefInitWith([Resting(LoopId) EXCEPT !.pc = "unstarted"], NoProc)

NextLifecycle ==
    \/ Start
    \/ TickShutdown
    \/ Lock(LoopId)
    \/ Fetch(LoopId)
    \/ Install(LoopId)
    \/ Unlock(LoopId)
    \/ LoopHandle
    \/ StopClose
    \/ LoopExit
    \/ StopReturn
    \/ StopAgain

\* the handle from New on: Start and Stop are called when their callers
\* choose, the loop runs under the fairness of SpecStop
SpecLifecycle == InitLifecycle /\ [][NextLifecycle]_vars /\ FairStop

\* tryRefresh has read a body and is about to validate it: any size around
\* the band, any combination of the marks, any line count around the minimum
InitSnapshot ==
    /\ IdxFrozen /\ StopInit /\ UrlInit /\ ApiInit /\ SrvInit
    /\ \E size \in {0, MinSize - 1, MinSize, MinSize + 1, MaxSize - 1, MaxSize,
                     MaxSize + 1, BodyLimit},
          html \in BOOLEAN, begin \in BOOLEAN, end \in BOOLEAN,
          lines \in {0, MinLines - 1, MinLines, MinLines + 1} :
          RefInitWith([Resting(LoopId) EXCEPT
                          !.pc = "install",
                          !.data = [id |-> 9, size |-> size, html |-> html,
                                    begin |-> begin, end |-> end,
                                    lines |-> lines]],
                      LoopId)

NextSnapshot ==
    \/ Install(LoopId)
    \/ Unlock(LoopId)
    \/ LoopHandle

\* the first scheduled attempt from the validation of its body onwards
SpecSnapshot == InitSnapshot /\ [][NextSnapshot]_vars

\* the scheduled loop and a caller of Stop
SpecStop == InitRefresher /\ [][NextStop]_vars /\ FairStop

----------------------------------------------------------------------------
(* Properties of the list index and of ingestion (specification Spec) *)

\* C1: for every input with normalized domain D, Check reports blocklisted
\* (allowlisted) exactly when D or D's registrable domain (eTLD+1) is an
\* entry of the deny (allow) set.
C1_RegistrableMatching ==
    \A q \in Queries :
        LET r == CheckLookup(q, allow, block)
            D == r.NormalizedDomain
            E == EffectiveTLDPlusOne(D)
        IN  /\ r.Blocklisted = (D \in block \/ E \in block)
            /\ r.Allowlisted = (D \in allow \/ E \in allow)

PrecedenceHolds(r) ==
    /\ r.Allowlisted => r.Status = "allow"
    /\ (~r.Allowlisted /\ r.Blocklisted) => r.Status = "block"
    /\ (~r.Allowlisted /\ ~r.Blocklisted) => r.Status = "neutral"

\* C2: the status is "allow" whenever Check finds the query allowlisted (also
\* when it finds it blocklisted too), "block" when it finds it only
\* blocklisted, and "neutral" when it finds it on neither list.
C2_AllowWins ==
    \A t \in Threads : th[t].op = "check" => PrecedenceHolds(th[t].res)

\* a finished Check of an entry that is on both lists answered "allow"
C2_Witness ==
    \E t \in Threads :
        /\ th[t].pc = "done" /\ th[t].op = "check"
        /\ th[t].res.Allowlisted /\ th[t].res.Blocklisted
        /\ th[t].res.Status = "allow"

\* the ingestion requests that have completed successfully
Completed(t) == th[t].pc = "done" /\ th[t].op = "ingest" /\ th[t].code = 200

\* C3: once an ingestion request has completed successfully, no entry it
\* wrote to the file is missing from the in-memory deny set, under any
\* interleaving with Load/Reload calls and queries.
C3_NoStaleWindow ==
    \A t \in Threads : Completed(t) => Range(th[t].unique) \subseteq block

\* the non-blank, non-comment lines of a file, normalized, in file order
RECURSIVE EntryLines(_)
EntryLines(lines) ==
    IF lines = << >> THEN << >>
    ELSE LET line == TrimSpace(Head(lines))
         IN  IF line = EmptyStr \/ HasPrefix(line, HASH) THEN EntryLines(Tail(lines))
             ELSE <<ToLower(line)>> \o EntryLines(Tail(lines))

NoRepeat(seq) == \A i, j \in 1..Len(seq) : seq[i] = seq[j] => i = j

\* C4: for any interleaving of concurrent ingestion requests, no entry ends up
\* appended to the on-disk deny list more than once (the deny lists the
\* service starts from hold each entry once).
C4_NoDuplicateAppend == NoRepeat(EntryLines(ScanLines(blockFile)))

\* the arrays PatchBlock is applied to
PatchBatches == {<<sBazIo, sBadCom, sComment, sBlank, sQuuxOrgMixed>>,
                 <<sBazIo, sBazIo>>, <<sPaddedBad, sNeutralIo>>}

\* C10: Patch is idempotent: a second Patch with the same entries leaves the
\* deny set and the raw sequence as the first one left them, and the first one
\* appends each distinct normalized entry once, and only if it was absent.
C10_PatchIdempotent ==
    \A es \in PatchBatches :
        LET p1 == PatchResult(es, block, rawBlock)
            p2 == PatchResult(es, p1.set, p1.raw)
            new == SubSeq(p1.raw, Len(rawBlock) + 1, Len(p1.raw))
        IN  /\ p2 = p1
            /\ NoRepeat(new)
            /\ Range(new) \cap block = {}
            /\ p1.set = block \cup Range(new)

Occurrences(seq, x) == Cardinality({i \in 1..Len(seq) : seq[i] = x})

\* two requests have patched the index with the same entries, and each of
\* these entries is in the raw sequence once
C10_Witness ==
    /\ Completed(1) /\ Completed(2)
    /\ th[1].unique # << >> /\ th[1].unique = th[2].unique
    /\ ~th[1].reload /\ ~th[2].reload
    /\ \A e \in Range(th[1].unique) : e \in block /\ Occurrences(rawBlock, e) = 1

\* a step in which goroutine t runs PatchBlock
PatchStep(t) == th[t].pc = "ingPatch" /\ th'[t].pc = "ingUnlock"

\* a step in which goroutine t's Load swaps the new lists in
LoadStep(t) == th[t].pc = "loadSwap" /\ th'[t].pc # "loadSwap"

IsPrefix(a, b) == Len(a) <= Len(b) /\ SubSeq(b, 1, Len(a)) = a

\* C11: Patch is additive only: every entry of the deny set before a Patch is
\* in it afterwards, the allow set (and its raw sequence) is untouched, and
\* the previous raw deny sequence is a prefix of the new one.
C11_PatchAdditive ==
    [][\A t \in Threads :
          PatchStep(t) => /\ block \subseteq block'
                          /\ allow' = allow /\ rawAllow' = rawAllow
                          /\ IsPrefix(rawBlock, rawBlock')]_vars

\* a Patch has added its entries to a loaded deny list, whose lines are still
\* at the head of the raw sequence
C11_Witness ==
    \E t \in Threads :
        /\ th[t].pc = "ingUnlock" /\ sBadCom \in block
        /\ Range(th[t].unique) \subseteq block
        /\ Len(rawBlock) = 2 + Len(th[t].unique)
        /\ rawBlock[1] = <<HASH, "deny">> /\ rawBlock[2] = sBadComUpper

\* C12: a Patch advances lastUpdated only if it inserted at least one entry; a
\* Patch whose candidates are all empty, comments or already present leaves
\* lastUpdated unchanged.
C12_NoOpPatchKeepsStamp ==
    [][\A t \in Threads :
          PatchStep(t) => /\ block' = block => updatedAt' = updatedAt
                          /\ updatedAt' # updatedAt => block' # block]_vars

\* two requests have patched the index with the same entries, and only the
\* first of the two Patch calls has advanced lastUpdated
C12_Witness ==
    /\ Completed(1) /\ Completed(2)
    /\ th[1].unique # << >> /\ th[1].unique = th[2].unique
    /\ ~th[1].reload /\ ~th[2].reload
    /\ updatedAt = 1 /\ clock = 2

\* C13: after any sequence of Load and Patch operations, each list's set is
\* exactly the set of lowercased non-blank, non-comment lines of its raw
\* sequence.
C13_SetDerivableFromRaw ==
    /\ block = Range(EntryLines(rawBlock))
    /\ allow = Range(EntryLines(rawAllow))

\* a Load of a file with a comment and an upper-case line, then a Patch
C13_Witness ==
    /\ rawBlock = <<<<HASH, "deny">>, sBadComUpper, sBazIo>>
    /\ block = {sBadCom, sBazIo}
    /\ allow = {sGoodCom, sBadCom}

\* C14: the ready flag is false until the first successful Load or Patch,
\* true from then on, and never returns to false, also after a Load that
\* fails.
C14_ReadyMonotone ==
    /\ ~ready
    /\ [][ready' = (ready \/ \E t \in Threads : PatchStep(t) \/ LoadStep(t))]_vars

\* a Load has failed after the index became ready
C14_Witness ==
    \E t \in Threads :
        ready /\ th[t].pc = "done" /\ th[t].op = "reload" /\ th[t].code = 400

\* a step in which goroutine t's rename puts the new deny list in place
RenameStep(t) == th[t].pc = "ingRename" /\ th'[t].pc = "ingPatch"

RECURSIVE OnePerLine(_)
OnePerLine(entries) ==
    IF entries = << >> THEN << >>
    ELSE Head(entries) \o <<LF>> \o OnePerLine(Tail(entries))

\* old content, one newline if it is non-empty and does not end with one,
\* then the entries one per line
Appended(old, entries) ==
    old \o (IF old # EmptyStr /\ old[Len(old)] # LF THEN <<LF>> ELSE << >>)
        \o OnePerLine(entries)

\* C17: a successful ingestion write preserves the pre-existing content of
\* the on-disk deny list: the new file is the previous bytes, one newline if
\* they did not end with one, and the unique new entries one per line.
C17_WritePreservesContent ==
    [][\A t \in Threads :
          RenameStep(t) => blockFile' = Appended(blockFile, th[t].unique)]_vars

----------------------------------------------------------------------------
(* Properties of the refresher (specifications SpecRefresher and SpecLoop) *)

\* C5: at most one fetch/validate/install sequence is in flight at any time.
C5_OneInFlight == Cardinality(InFlight) <= 1

\* one caller is inside tryRefresh while another waits for the mutex
C5_Witness ==
    \E p, q \in Callers :
        p # q /\ rp[p].pc \in {"fetch", "install"} /\ rp[q].pc = "call"

\* a payload that fails one of the integrity checks
IntegrityFails(d) ==
    \/ d.size < MinSize \/ d.size > MaxSize
    \/ d.html
    \/ ~d.begin
    \/ ~d.end
    \/ d.lines < MinLines

Installed == <<destFile, lastModified, etag, lastSize, lastSHA256>>

\* C6: an attempt whose payload fails integrity validation fails and installs
\* nothing: the destination file, the stored validators, the last accepted
\* size and the last accepted hash are unchanged.
C6_InvalidInstallsNothing ==
    [][\A p \in Callers :
          (rp[p].pc = "install" /\ IntegrityFails(rp[p].data) /\ rp'[p].pc = "unlock")
              => (Installed' = Installed /\ ~rp'[p].ok)]_vars

\* a payload without the END marker, of an accepted size, was rejected while a
\* snapshot installed earlier is in place
C6_Witness ==
    \E p \in Callers :
        /\ rp[p].pc = "unlock" /\ rp[p].cause = "validate" /\ rp[p].data = pNoEnd
        /\ destFile = pGood1 /\ lastSize = pGood1.size /\ lastModified = "lm1"

MinOf(a, b) == IF a < b THEN a ELSE b

\* C7: after k >= 1 consecutive failed scheduled attempts the delay before
\* the next attempt is min(5 minutes * 2^(k-1), 6 hours).
C7_BackoffDelay ==
    (rp[LoopId].pc = "wait" /\ streak >= 1)
        => delay = MinOf(BackoffFloor * 2^(streak - 1), BackoffCeil)

\* the eighth consecutive failure is the first one the ceiling cuts
C7_Witness ==
    rp[LoopId].pc = "wait" /\ streak = 8 /\ delay = BackoffCeil /\ backoff = BackoffCeil

\* C8: in the scheduled loop a success of any kind (installed, or 304) sets
\* the delay to the base Interval, and the first failure after a success waits
\* the 5-minute floor.
C8_SuccessResets ==
    [][(rp[LoopId].pc = "handle" /\ rp'[LoopId].pc = "wait")
          => /\ rp[LoopId].cause \in {"installed", "not modified"}
                    => (rp[LoopId].ok /\ delay' = Interval)
             /\ (~rp[LoopId].ok /\ prevLoop.ok = "ok") => delay' = BackoffFloor]_vars

\* two failures or more, then a success, then one failure: the floor again
C8_Witness ==
    /\ rp[LoopId].pc = "wait" /\ streak = 1 /\ prevLoop.ok = "fail"
    /\ prevLoop.broke = 2 /\ delay = BackoffFloor

\* C9: every failed attempt, whatever its cause, increments the
\* consecutive-failure counter by exactly one, and every successful attempt
\* (304 included) resets it to zero.
C9_EveryFailureCounts ==
    [][\A p \in Callers :
          (rp[p].pc \in {"fetch", "install"} /\ rp'[p].pc = "unlock")
              => IF rp'[p].ok THEN consecutiveFailures' = 0
                 ELSE consecutiveFailures' = consecutiveFailures + 1]_vars

\* a step in which caller p's attempt ends with a 304
NotModifiedStep(p) ==
    rp[p].pc = "fetch" /\ rp'[p].pc = "unlock" /\ rp'[p].cause = "not modified"

\* C18: a 304 makes the attempt succeed without reinstalling: the destination
\* file, the stored validators and the last accepted size and hash are
\* unchanged, the consecutive-failure counter is reset to zero and the
\* last-success instant is the present one.
C18_NotModifiedSucceeds ==
    [][\A p \in Callers :
          NotModifiedStep(p) => /\ rp'[p].ok
                                /\ Installed' = Installed
                                /\ consecutiveFailures' = 0
                                /\ lastRefreshUnix' = Now]_vars

\* a 304 after failures (the gauge still shows them), with a snapshot
\* installed earlier still in place
C18_Witness ==
    \E p \in Callers :
        /\ rp[p].pc = "unlock" /\ rp[p].cause = "not modified"
        /\ destFile = pGood1 /\ lastSize = pGood1.size
        /\ consecutiveFailures = 0 /\ gauge > 0 /\ lastRefreshUnix = Now

\* a step in which caller p's attempt installs its payload
InstallStep(p) ==
    rp[p].pc = "install" /\ rp'[p].pc = "unlock" /\ rp'[p].cause = "installed"

\* C19 as amended: with a last accepted size S > 0, a validated snapshot
\* whose size is below 0.8*S or above 1.2*S is installed and increments the
\* size-delta-warning counter by one, any other size (0.8*S and 1.2*S
\* included) is installed without a warning, and no attempt fails because of
\* its size delta.
C19_SizeDeltaWarning ==
    [][\A p \in Callers :
          /\ InstallStep(p) =>
                LET S == lastSize
                    n == rp[p].data.size
                    far == S > 0 /\ (5 * n < 4 * S \/ 5 * n > 6 * S)
                IN  /\ rp'[p].ok /\ destFile' = rp[p].data /\ lastSize' = n
                    /\ sizeWarnings' = IF far THEN sizeWarnings + 1 ELSE sizeWarnings
          /\ (rp[p].pc = "install" /\ rp'[p].pc = "unlock" /\ ~rp'[p].ok)
                => rp'[p].cause \in {"validate", "dir", "write", "rename"}]_vars

\* the second install is 25% larger than the first and has been counted
C19_Witness ==
    \E p \in Callers :
        /\ rp[p].pc = "unlock" /\ rp[p].cause = "installed" /\ rp[p].ok
        /\ destFile = pGood2 /\ lastSize = pGood2.size /\ sizeWarnings = 1

\* C19 as stated: a size <= 0.8*S or >= 1.2*S increments the counter.
C19_AsStated ==
    [][\A p \in Callers :
          InstallStep(p) =>
              LET S == lastSize
                  n == rp[p].data.size
              IN  (S > 0 /\ (5 * n <= 4 * S \/ 5 * n >= 6 * S))
                      => sizeWarnings' = sizeWarnings + 1]_vars

\* C20: after Start, a Stop called at any point of the loop's cycle returns,
\* and when it has returned the loop has exited and makes no further attempt.
C20_StopReturns ==
    /\ (sp.pc = "waitDone") ~> (sp.pc = "returned")
    /\ [](sp.pc = "returned" => rp[LoopId].pc = "exited")
    /\ [][rp[LoopId].pc = "exited" => rp'[LoopId].pc = "exited"]_vars

\* Stop was called in the middle of an attempt and has returned
C20_Witness ==
    sp.pc = "returned" /\ sp.at = "install" /\ rp[LoopId].pc = "exited"

----------------------------------------------------------------------------
(* Remote lists: the address check *)

\* the IPv4 bytes of an IPv4 address or of ::ffff:a.b.c.d
IsV4Form(ip) ==
    \/ Len(ip) = 4
    \/ Len(ip) = 16 /\ SubSeq(ip, 1, 12) = <<0, 0, 0, 0, 0, 0, 0, 0, 0, 0, 255, 255>>

\* the first 16 bits of the address, as a number
Hi16(ip) ==
    IF Len(ip) = 4 THEN ip[1] * 256 + ip[2]
    ELSE IF IsV4Form(ip) THEN ip[13] * 256 + ip[14]
    ELSE ip[1] * 256 + ip[2]

\* loopback, unspecified, multicast, link-local, 10.0.0.0/8, 172.16.0.0/12,
\* 192.168.0.0/16, fc00::/7, by the address blocks
Disallowed(ip) ==
    IF IsV4Form(ip)
    THEN \/ Hi16(ip) \in 32512..32767
         \/ Hi16(ip) = 0 /\ ip[Len(ip) - 1] = 0 /\ ip[Len(ip)] = 0
         \/ Hi16(ip) \in 57344..61439
         \/ Hi16(ip) = 43518
         \/ Hi16(ip) \in 2560..2815
         \/ Hi16(ip) \in 44048..44063
         \/ Hi16(ip) = 49320
    ELSE \/ \A i \in 1..15 : ip[i] = 0
         \/ Hi16(ip) \in 65280..65535
         \/ Hi16(ip) \in 65152..65215
         \/ Hi16(ip) \in 64512..65023

\* C15: if a url of an ingestion request resolves to a disallowed address, the
\* request is rejected and no url of the request has been fetched
C15_NoFetchBeforeRejection ==
    (\E i \in 1..Len(fx.seen) : Disallowed(fx.seen[i].ip)) =>
        /\ fx.pc = "rejected"
        /\ th[FetchThread].code = 400
        /\ fx.fetched = {}

\* C16: isDisallowedIP is true exactly for the loopback, unspecified, multicast,
\* link-local, 10.0.0.0/8, 172.16.0.0/12, 192.168.0.0/16 and fc00::/7 addresses:
\* 127.0.0.1, 10.0.0.5, 169.254.0.1 and fc00::1 are disallowed, 8.8.8.8 is not
C16_DisallowedExact ==
    \A i \in 1..Len(fx.seen) :
        /\ fx.seen[i].bad = Disallowed(fx.seen[i].ip)
        /\ fx.seen[i].ip \in {V4(127, 0, 0, 1), V4(10, 0, 0, 5),
                            V4(169, 254, 0, 1), V6(252, 0, 1)} => fx.seen[i].bad
        /\ fx.seen[i].ip = V4(8, 8, 8, 8) => ~fx.seen[i].bad

\* a host with the addresses 8.8.8.8 and 10.0.0.5: the first passes, the second
\* rejects the request
C16_Witness ==
    /\ fx.pc = "rejected"
    /\ fx.err = "disallowed host ip range"
    /\ fx.seen = <<[ip |-> V4(8, 8, 8, 8), bad |-> FALSE],
                   [ip |-> V4(10, 0, 0, 5), bad |-> TRUE]>>

----------------------------------------------------------------------------
(* RefreshNow and the loop's backoff *)

\* a call of RefreshNow returns
ManualReturn(p) == p \in Manual /\ rp[p].pc = "unlock" /\ rp'[p].pc = "idle"

\* C21: a RefreshNow that succeeds resets the loop's pending retry delay to the
\* polling interval, and one that fails counts for the loop's next delay as a
\* failed scheduled attempt would
C21_ManualSharesBackoff ==
    [][\A p \in Manual :
          ManualReturn(p) =>
              IF rp[p].ok
              THEN backoff > 0 => backoff' = 0 /\ delay' = Interval
              ELSE /\ backoff' = BackoffAfter(FALSE, backoff)
                   /\ delay' = DelayAfter(FALSE, backoff')]_vars

----------------------------------------------------------------------------
(* Reload(strict) and Validate *)

\* goroutine t has a report
Reported(t) == th[t].pc = "done" /\ th[t].rep # NoReport

\* goroutine t's Reload(true) has returned the validation error
StrictFailed(t) ==
    /\ Reported(t) /\ th[t].op = "reload" /\ th[t].strict
    /\ th[t].code = 400

\* the index holds what Load reads from the list files
IndexIsLoaded ==
    /\ allow = readListFile(allowFile).set
    /\ rawAllow = readListFile(allowFile).raw
    /\ block = readListFile(blockFile).set
    /\ rawBlock = readListFile(blockFile).raw

\* C22: Reload(true) whose Load succeeds and whose validation finds errors
\* returns the validation error and leaves the freshly loaded lists in the
\* index; Reload(false) returns nil whenever its Load succeeds
C22_ReloadStrict ==
    /\ [](\A t \in Threads :
            /\ StrictFailed(t) => th[t].rep.ErrorsFound /\ IndexIsLoaded
            /\ (th[t].op = "reload" /\ th[t].strict /\ th[t].pc = "done"
                    /\ th[t].code = 200) => allow \cap block = {})
    /\ [][\A t \in Threads :
             (LoadStep(t) /\ th[t].op = "reload" /\ ~th[t].strict) =>
                 th'[t].pc = "done" /\ th'[t].code = 200]_vars

\* a Reload(true) has failed on an allow/deny contradiction, and the loaded
\* lists are in the index
C22_Witness ==
    \E t \in Threads :
        StrictFailed(t) /\ th[t].rep.Intersection # {} /\ IndexIsLoaded

\* the findings that count as errors when third-level entries do not
ErrorsFoundRelaxed(r) ==
    \/ r.PublicSuffixInBlock # << >>
    \/ r.NonLowercaseAllow # << >> \/ r.NonLowercaseBlock # << >>
    \/ r.DuplicatesAllow # {} \/ r.DuplicatesBlock # {}
    \/ r.Intersection # {}

\* C23: deny entries below the registrable domain are listed as third-level
\* entries and do not set ErrorsFound, so a Reload(true) whose only finding is
\* such entries succeeds
C23_ThirdLevelRelaxed ==
    \A t \in Threads :
        Reported(t) =>
            /\ th[t].rep.ErrorsFound = ErrorsFoundRelaxed(th[t].rep)
            /\ (th[t].op = "reload" /\ ~ErrorsFoundRelaxed(th[t].rep)) =>
                   th[t].code = 200

\* a step in which goroutine t's Validate makes its report
ReportStep(t) == th[t].pc = "valInter" /\ th'[t].pc = "done"

\* the raw strings that occur more than once among the entry lines
RawDuplicates(lines) ==
    {l \in Range(lines) :
        ~(l = EmptyStr \/ HasPrefix(l, HASH)) /\ Occurrences(lines, l) > 1}

\* C24: a line is reported as a duplicate exactly when the identical raw string
\* occurs more than once among the entry lines: the deny sequence
\* ["BAD.COM", "bad.com"] has the non-lowercase line BAD.COM and no duplicate
C24_DuplicatesOnRaw ==
    [][\A t \in Threads :
          ReportStep(t) =>
              /\ th'[t].rep.DuplicatesAllow = RawDuplicates(th[t].rawA)
              /\ th'[t].rep.DuplicatesBlock = RawDuplicates(th[t].rawB)
              /\ th[t].rawB = <<sBadComUpper, sBadCom>> =>
                     /\ th'[t].rep.NonLowercaseBlock = <<sBadComUpper>>
                     /\ th'[t].rep.DuplicatesBlock = {}]_vars

\* a report on the deny sequence ["BAD.COM", "bad.com"]
C24_Witness ==
    \E t \in Threads :
        /\ Reported(t)
        /\ rawBlock = <<sBadComUpper, sBadCom>>
        /\ th[t].rep.NonLowercaseBlock = <<sBadComUpper>>
        /\ th[t].rep.DuplicatesBlock = {}

\* the states the index goes through: empty, then what Load reads
IndexStates ==
    {[a |-> {}, b |-> {}, ra |-> << >>, rb |-> << >>],
     [a |-> readListFile(allowFile).set, b |-> readListFile(blockFile).set,
      ra |-> readListFile(allowFile).raw, rb |-> readListFile(blockFile).raw]}

\* C30: the Intersection and the raw-line findings of one report describe the
\* same index state
C30_ReportOfOneState ==
    \A t \in Threads :
        Reported(t) =>
            \E i \in IndexStates : th[t].rep = Report(i.ra, i.rb, i.a, i.b)

----------------------------------------------------------------------------
(* The ingestion response *)

\* a step in which goroutine t filters its candidates against the file
DedupStep(t) ==
    th[t].pc = "ingDedup" /\ th'[t].pc \in {"ingLock", "loadAllow", "ingRespond"}

\* a step in which goroutine t answers 200
RespondStep(t) == th[t].pc = "ingRespond" /\ th'[t].pc = "done"

\* the entries of the deny list on disk, normalized
OnDisk(data) ==
    {ToLower(TrimSpace(l)) : l \in {x \in Range(ScanLines(data)) :
        TrimSpace(x) # EmptyStr /\ ~HasPrefix(TrimSpace(x), HASH)}}

\* C25: in a successful ingestion response appended + skipped_duplicates is the
\* number of normalized candidates, added has exactly appended entries, and
\* these are pairwise distinct and were not in the deny list on disk from which
\* the existing set was built
C25_ResponseCounts ==
    [][\A t \in Threads :
          /\ DedupStep(t) =>
                 /\ NoRepeat(th'[t].unique)
                 /\ Range(th'[t].unique) \cap OnDisk(blockFile) = {}
                 /\ Range(th'[t].unique) \subseteq Range(th[t].cands)
          /\ RespondStep(t) =>
                 /\ th'[t].appended + th'[t].skipped = Len(th[t].cands)
                 /\ Len(th'[t].added) = th'[t].appended
                 /\ \A i \in 1..Len(th'[t].added) :
                        th'[t].added[i].domain = th[t].unique[i]]_vars

\* an answer with an appended entry and a skipped duplicate
C25_Witness ==
    \E t \in Threads : Completed(t) /\ th[t].appended > 0 /\ th[t].skipped > 0

----------------------------------------------------------------------------
(* The candidate cap *)

\* len(candidates) when the collection of a request is over
Collected == fx.pc = "handed"

\* C26: the candidates of one ingestion request never exceed the cap of
\* 200,000, whatever the mix of direct entries and remote content; what is beyond
\* the cap is dropped and logged
C26_CandidateCap ==
    /\ Collected => Len(fx.cands) + fx.bulk <= maxPerFetchEntries
    /\ fx.capped => Len(fx.cands) + fx.bulk = maxPerFetchEntries

\* the tokens the guard accepts: the non-empty ones it was built with
ConfiguredTokens ==
    {adminTokens.tokens[i] : i \in 1..Len(adminTokens.tokens)} \ {""}

\* the guard has dealt with the request
Guarded == rq.pc \in {"handler", "classify", "done"}

ObjectLists(data) ==
    {data.keys[k] : k \in {k \in DOMAIN data.keys :
                              /\ k \in {"items", "values", "emails", "domains"}
                              /\ data.keys[k] # NotAList}}

\* C28: a batch check request with Content-Type application/json whose body
\* is a JSON object having one of the keys items, values, emails or domains
\* mapped to an array of strings is accepted, and the strings of that array
\* are the batch items that get classified.
C28_ObjectFormAccepted ==
    [][(/\ rq.pc = "handler" /\ rq'.pc # "handler"
        /\ rq.method = "POST" /\ ready
        /\ IsJsonType(rq.ct) /\ rq.body.data.kind = "object"
        /\ ObjectLists(rq.body.data) # {})
           => /\ rq'.pc = "classify"
              /\ rq'.items \in ObjectLists(rq.body.data)]_vars

\* C29: after every refresh attempt the exported psl_consecutive_failures
\* gauge equals the current streak of consecutive failed attempts: it is 0
\* after any success, including a 304 not-modified, and grows by one with
\* each failed attempt.
C29_GaugeIsFailureStreak ==
    [][\A p \in Callers :
          (rp[p].pc \in {"fetch", "install"} /\ rp'[p].pc = "unlock")
              => gauge' = IF rp'[p].ok THEN 0 ELSE gauge + 1]_vars

----------------------------------------------------------------------------
(* One result, one index state *)

\* a step in which goroutine t's Check reads the timestamp and returns
StampStep(t) == th[t].pc = "checkStamp" /\ th'[t].pc = "done"

\* C31: for any interleaving of Check with concurrent Load or Patch calls, the
\* allow/deny booleans and the lists_updated_at timestamp of a single result
\* come from the same index state: the booleans returned with a timestamp are
\* those of the index that carries this timestamp.
C31_ResultOfOneState ==
    [][\A t \in Threads :
          StampStep(t) =>
              LET now == CheckLookup(th'[t].res.Input, allow, block)
              IN  /\ th'[t].res.UpdatedAt = updatedAt
                  /\ th'[t].res.Allowlisted = now.Allowlisted
                  /\ th'[t].res.Blocklisted = now.Blocklisted]_vars

----------------------------------------------------------------------------
(* Failed ingestion requests *)

\* a step of goroutine t's ingestion request
IngestStep(t) == th'[t] # th[t] /\ th'[t].op = "ingest"

\* the request has not yet renamed its temporary file over the deny list
BeforeRename(t) ==
    th[t].pc \in {"idle", "done", "fetching", "ingDedup", "ingLock",
                  "ingWriteTmp", "ingRename"}

\* the step leaves the list files and the index as they are
ListsUntouched ==
    UNCHANGED <<allowFile, blockFile, allow, block, rawAllow, rawBlock,
                updatedAt, ready>>

\* C32: an ingestion request that ends in an error response leaves both the
\* on-disk deny list and the in-memory index exactly as they were: the error
\* response comes before the rename has succeeded, no step of the request up to
\* there touches file or index, and the index is patched only after the rename
\* has succeeded.
C32_ErrorLeavesListsAlone ==
    [][\A t \in Threads :
          IngestStep(t) =>
              /\ (th'[t].pc = "done" /\ th'[t].code # 200)
                    => BeforeRename(t) /\ ListsUntouched
              /\ (BeforeRename(t) /\ ~RenameStep(t)) => ListsUntouched
              /\ RenameStep(t) => UNCHANGED <<allow, block, rawAllow, rawBlock,
                                              updatedAt, ready>>]_vars

\* a request with a remote list has failed at the rename; the deny list is the
\* file it found
C32_Witness ==
    /\ fx.pc = "handed" /\ fx.fetched # {}
    /\ th[FetchThread].pc = "done" /\ th[FetchThread].code = 500
    /\ th[FetchThread].unique # << >> /\ th[FetchThread].totalLines > 0
    /\ \E f \in ListFiles : blockFile = f.block /\ f.block # EmptyStr

----------------------------------------------------------------------------
(* Load is all-or-nothing *)

\* the index: both sets, both raw sequences and the timestamp
IndexFields == <<allow, block, rawAllow, rawBlock, updatedAt>>

\* a step of goroutine t's Load that reads a file (or fails to)
LoadReadStep(t) == th[t].pc \in {"loadAllow", "loadBlock"} /\ th'[t] # th[t]

\* the step in which goroutine t's Load installs what it has read
SwapStep(t) == th[t].pc = "loadSwap" /\ th'[t] # th[t]

\* C33: Load is all-or-nothing: if reading either list file fails, Load
\* returns the error and the allow set, deny set, both raw sequences and
\* lastUpdated are all unchanged; on success all of them are replaced
\* together in a single step, so no reader sees the new allow list with the
\* old deny list.
C33_LoadAllOrNothing ==
    [][\A t \in Threads :
          /\ LoadReadStep(t) => UNCHANGED IndexFields
          /\ SwapStep(t) =>
                /\ allow' = th[t].ldAllow.set /\ rawAllow' = th[t].ldAllow.raw
                /\ block' = th[t].ldBlock.set /\ rawBlock' = th[t].ldBlock.raw
                /\ updatedAt' > updatedAt]_vars

\* a Reload has failed on a loaded index
C33_Witness ==
    \E t \in Threads :
        /\ th[t].pc = "done" /\ th[t].op = "reload" /\ th[t].code = 400
        /\ allow # {} /\ block # {} /\ updatedAt > 0

----------------------------------------------------------------------------
(* The order of the snapshot checks *)

\* the checks of the claim, in its order: the first that fails, or "" when
\* all five hold
FirstFailure(d) ==
    IF ~(200000 <= d.size /\ d.size <= 2000000) THEN "unexpected size"
    ELSE IF d.html THEN "looks like html"
    ELSE IF ~d.begin THEN "missing ICANN begin marker"
    ELSE IF ~d.end THEN "missing ICANN end marker"
    ELSE IF ~(d.lines >= 5000) THEN "too few lines"
    ELSE ""

\* a step in which caller p's attempt validates its body (and goes on to
\* install it if it passes)
ValidateStep(p) == rp[p].pc = "install" /\ rp'[p].pc = "unlock"

\* C34: snapshot validation applies its checks in a fixed order and reports
\* the first one that fails: size within the inclusive band [200000, 2000000]
\* bytes, then no '<html' in the first 1024 bytes, then the BEGIN marker, then
\* the END marker, then at least 5000 lines; a payload is accepted exactly
\* when all five hold.
C34_ValidateOrder ==
    [][\A p \in Callers :
          ValidateStep(p) =>
              /\ rp'[p].verr = FirstFailure(rp[p].data)
              /\ (rp'[p].cause = "validate") <=> (FirstFailure(rp[p].data) # "")
              /\ rp'[p].ok => FirstFailure(rp[p].data) = ""]_vars

\* a body of exactly the largest accepted size and the smallest accepted line
\* count has been installed
C34_Witness ==
    /\ rp[LoopId].pc = "unlock" /\ rp[LoopId].ok /\ rp[LoopId].verr = ""
    /\ rp[LoopId].data.size = 2000000 /\ rp[LoopId].data.lines = 5000
    /\ destFile = rp[LoopId].data

----------------------------------------------------------------------------
(* After Stop *)

\* a step in which caller p enters tryRefresh's critical section
AttemptStarts(p) == rp[p].pc = "call" /\ rp'[p].pc = "fetch"

\* C35: once Stop has returned, no refresh attempt starts any more and the
\* snapshot file is not written again by the Refresher, whether the attempt
\* would come from the scheduled loop or from a manual RefreshNow.
C35_QuietAfterStop ==
    [][sp.pc = "returned" =>
          /\ destFile' = destFile
          /\ \A p \in Callers : ~AttemptStarts(p)]_vars

\* C36: Stop returns, without blocking forever and without panicking, in
\* every lifecycle state of the Refresher handle: when Start was never
\* called, while the loop is running, and when Stop has already been called
\* once.
C36_StopAlwaysReturns ==
    /\ [](sp.pc # "panicked")
    /\ (sp.pc = "waitDone") ~> (sp.pc = "returned")

----------------------------------------------------------------------------
(* Line identifiers *)

\* line n of the file holds entry e
HoldsAt(data, n, e) ==
    n \in 1..Len(ScanLines(data)) /\ ScanLines(data)[n] = e

\* C37: the line identifier returned for each newly added entry equals the
\* 1-based line number at which that entry sits in the on-disk deny list after
\* the write, for any interleaving of concurrent ingestion requests.
C37_IdsAreLineNumbers ==
    [][\A t \in Threads :
          RenameStep(t) =>
              LET added == AddedIds(th[t].totalLines, th[t].unique)
              IN  \A i \in 1..Len(added) :
                      HoldsAt(blockFile', added[i].id, added[i].domain)]_vars

----------------------------------------------------------------------------
(* Expiry of a rate-limit bucket *)

\* a step in which the limiter serves a request of the client
RequestStep == rl'.ev = "request" /\ rl' # rl

\* the time since the client's previous request
Inactivity == rl.now - rl.prev

\* C39: a client's rate-limit bucket expires only after ttl of inactivity
\* from that client: while the client keeps sending requests at intervals
\* shorter than ttl (allowed or rejected with 429) its bucket is not evicted
\* and replaced by a fresh full-burst bucket; after ttl without requests the
\* next request gets a fresh bucket.
C39_BucketExpiry ==
    [][(RequestStep /\ rl.prev >= 0) =>
          /\ Inactivity < rl.cfg.ttl => ~rl'.made
          /\ Inactivity > rl.cfg.ttl => rl'.made]_vars

----------------------------------------------------------------------------
(* The fallback parse of an address *)

\* the position of the last '@' of s (0: none)
RECURSIVE LastAt(_, _)
LastAt(s, i) == IF i = 0 THEN 0 ELSE IF s[i] = AT THEN i ELSE LastAt(s, i - 1)

\* inputs with an '@' that strict parsing refuses: a blank in the local part,
\* two '@', nothing after the '@', nothing before it
FallbackInputs ==
    {<<"a", SP, "b", AT, "bad", DOT, "com">>, sTwoAts,
     <<"user", AT>>, <<AT, "bad", DOT, "com">>}

\* the number of '@' in s
RECURSIVE CountAt(_)
CountAt(s) ==
    IF s = << >> THEN 0 ELSE (IF Head(s) = AT THEN 1 ELSE 0) + CountAt(Tail(s))

\* C38 as amended: for an input containing '@' that fails strict address
\* parsing, Check falls back to splitting on every '@': when there is exactly
\* one '@' and both the part before and the part after it are non-empty the
\* input is accepted as a validly formatted email with that local part and
\* domain, and otherwise (an empty part, or more than one '@') it is reported
\* as an email with invalid format and empty domain (status neutral).
C38_FallbackOnSingleAt ==
    \A q \in FallbackInputs :
        LET r == CheckLookup(q, allow, block)
            k == LastAt(q, Len(q))
            before == SubSeq(q, 1, k - 1)
            after == SubSeq(q, k + 1, Len(q))
        IN  (Contains(q, AT) /\ ~ParseAddress(q).ok) =>
                /\ r.Type = "email"
                /\ IF CountAt(q) = 1 /\ before # EmptyStr /\ after # EmptyStr
                   THEN /\ r.ValidFormat
                        /\ r.LocalPart = before
                        /\ r.Domain = TrimSpace(after)
                   ELSE /\ ~r.ValidFormat
                        /\ r.Domain = EmptyStr
                        /\ r.Status = "neutral"

\* the lists are loaded; an address with a blank in its local part is taken
\* by the fallback and found on the deny list, one with two '@' is refused
C38_Witness ==
    /\ block # {}
    /\ LET r == CheckLookup(<<"a", SP, "b", AT, "bad", DOT, "com">>, allow, block)
       IN  ~ParseAddress(r.Input).ok /\ r.ValidFormat /\ r.Blocklisted
    /\ ~CheckLookup(sTwoAts, allow, block).ValidFormat

\* C38 as stated: for an input containing '@' that fails strict address
\* parsing, Check falls back to splitting on the last '@': when both the part before and the
\* part after the last '@' are non-empty the input is accepted as a validly
\* formatted email with that local part and domain, and otherwise it is
\* reported as an email with invalid format and empty domain (status neutral).
C38_FallbackOnLastAt ==
    \A q \in FallbackInputs :
        LET r == CheckLookup(q, allow, block)
            k == LastAt(q, Len(q))
            before == SubSeq(q, 1, k - 1)
            after == SubSeq(q, k + 1, Len(q))
        IN  (Contains(q, AT) /\ ~ParseAddress(q).ok) =>
                /\ r.Type = "email"
                /\ IF before # EmptyStr /\ after # EmptyStr
                   THEN /\ r.ValidFormat
                        /\ r.LocalPart = before
                        /\ r.Domain = TrimSpace(after)
                   ELSE /\ ~r.ValidFormat
                        /\ r.Domain = EmptyStr
                        /\ r.Status = "neutral"

\* the instruction a goroutine is at (none when idle or past the end)
AtIns(g) ==
    IF lp[g].op # "none" /\ lp[g].at <= Len(Program(lp[g].op))
    THEN Program(lp[g].op)[lp[g].at]
    ELSE Ins("None", "none")

HeldBy(g) == {l \in LockNames : Cur(l).w = g \/ g \in Cur(l).r}

LockRank(l) ==
    CASE l = "blMu" -> 1 [] l = "statusMu" -> 2 [] l = "cmu" -> 3 [] OTHER -> 0

\* every acquisition follows the order blMu, statusMu, c.mu and r.mu is
\* never held together with another lock
OrderKept ==
    \A g \in Goroutines :
        /\ ("rmu" \in HeldBy(g)) => HeldBy(g) = {"rmu"}
        /\ (AtIns(g).k \in {"Want", "Lock", "RLock"}) =>
               IF AtIns(g).l = "rmu"
               THEN HeldBy(g) = {}
               ELSE \A h \in HeldBy(g) : LockRank(h) < LockRank(AtIns(g).l)

\* whenever an operation is under way, some operation can take its next step
NeverStuck ==
    (\E g \in Goroutines : lp[g].op # "none") =>
        \E g \in Goroutines : ENABLED (LockStep(g) \/ LockReturn(g))

\* C40: no interleaving of ingestion requests, reload requests, status
\* initialisation and reads, classification queries and refresher attempts
\* deadlocks: the ingestion mutex, the status lock and the index lock are
\* always acquired in the same nesting order, and the refresher's mutex is
\* never held together with any of them.
C40_NoLockCycle == OrderKept /\ NeverStuck

\* an ingestion holds blMu and statusMu and waits to read the index, which a
\* reload holds for writing, while a refresher attempt holds r.mu
C40_Witness ==
    \E g, h, k \in Goroutines :
        /\ lp[g].op = "blocklist" /\ HeldBy(g) = {"blMu", "statusMu"}
        /\ AtIns(g) = Ins("RLock", "cmu")
        /\ lp[h].op = "reload" /\ cmu.w = h
        /\ lp[k].op = "refresh" /\ rmu = k

============================================================================
